---- MODULE Spec2Model ----
(***************************************************************************)
(* Model of the macroforge TypeScript language-service plugin              *)
(* (src/src/index.ts): the host-level hook getScriptSnapshot, the          *)
(* diagnostic hook getSemanticDiagnostics, processFile, and the three      *)
(* per-project collections virtualDtsFiles, snapshotCache and              *)
(* processingFiles.                                                        *)
(*                                                                         *)
(* Execution is single threaded.  A hook runs to completion within one     *)
(* step unless it reaches the call of the Expander                         *)
(* (nativePlugin.processFile): that call is the only point where the host  *)
(* can re-enter the plugin, so a hook that reaches it is split in a Begin  *)
(* step (everything up to the call; pushes a frame on the call stack) and  *)
(* an End step (the Expander's outcome and everything after it).  Between  *)
(* the two, nested requests run on top of the frame.                       *)
(***************************************************************************)
EXTENDS Integers, Sequences, FiniteSets, TLC

\* ------------------------------------------------------------------ bounds
MaxVersion == 2      \* the host's version counter of a file stops here
MaxDepth == 2        \* Expander calls that may be in progress at once
MaxAlloc == 2        \* expanded snapshots ScriptSnapshot.fromString may create
MaxDiags == 2        \* diagnostics the host reports for one request
MaxEntries == 2      \* entries of one list result of the host

\* ------------------------------------------------------------ text helpers
\* A text is a tuple of one-character strings.
IsWs(c) == c \in {" ", "\n", "\t"}

toLowerCase(c) ==
    CASE c = "A" -> "a" [] c = "B" -> "b" [] c = "C" -> "c" [] c = "D" -> "d"
      [] c = "E" -> "e" [] c = "F" -> "f" [] c = "G" -> "g" [] c = "H" -> "h"
      [] c = "I" -> "i" [] c = "J" -> "j" [] c = "K" -> "k" [] c = "L" -> "l"
      [] c = "M" -> "m" [] c = "N" -> "n" [] c = "O" -> "o" [] c = "P" -> "p"
      [] c = "Q" -> "q" [] c = "R" -> "r" [] c = "S" -> "s" [] c = "T" -> "t"
      [] c = "U" -> "u" [] c = "V" -> "v" [] c = "W" -> "w" [] c = "X" -> "x"
      [] c = "Y" -> "y" [] c = "Z" -> "z"
      [] OTHER -> c

LowerText(text) == [i \in 1..Len(text) |-> toLowerCase(text[i])]

\* text has pat at 1-based index i
StartsAt(text, pat, i) ==
    /\ i >= 1
    /\ i + Len(pat) - 1 <= Len(text)
    /\ \A k \in 1..Len(pat) : text[i + k - 1] = pat[k]

\* String.prototype.includes
Includes(text, pat) == \E i \in 1..(Len(text) + 1) : StartsAt(text, pat, i)

\* index of the first non-whitespace character at or after i (\s*)
RECURSIVE SkipWs(_, _)
SkipWs(text, i) ==
    IF i <= Len(text) /\ IsWs(text[i]) THEN SkipWs(text, i + 1) ELSE i

\* String.prototype.trim().length === 0
IsBlank(text) == \A i \in 1..Len(text) : IsWs(text[i])

IsWordChar(c) ==
    c \in {"a","b","c","d","e","f","g","i","l","m","o","p","r","s","t","u","v","x","y",
           "A","B","C","D","E","G","I","M","O","P","R","T","U","V","X","_","0","1"}

StrDerive == <<"@","d","e","r","i","v","e">>
StrJsDoc == <<"/","*","*">>
StrImport == <<"i","m","p","o","r","t">>
StrMacro == <<"m","a","c","r","o">>

\* /\/\*\*\s*@derive\s*\(/i
JsDocDeriveAt(text, i) ==
    LET low == LowerText(text)
        j == SkipWs(low, i + 3)
        k == SkipWs(low, j + 7)
    IN /\ StartsAt(low, StrJsDoc, i)
       /\ StartsAt(low, StrDerive, j)
       /\ StartsAt(low, <<"(">>, k)

\* /\/\*\*\s*import\s+macro\b/i
JsDocImportAt(text, i) ==
    LET low == LowerText(text)
        j == SkipWs(low, i + 3)
        k == SkipWs(low, j + 6)
    IN /\ StartsAt(low, StrJsDoc, i)
       /\ StartsAt(low, StrImport, j)
       /\ k > j + 6
       /\ StartsAt(low, StrMacro, k)
       /\ (k + 5 > Len(low) \/ ~IsWordChar(low[k + 5]))

hasMacroDirectives(text) ==
    \/ Includes(text, StrDerive)
    \/ \E i \in 1..Len(text) : JsDocDeriveAt(text, i)
    \/ \E i \in 1..Len(text) : JsDocImportAt(text, i)

\* ------------------------------------------------------------- file names
\* A file name is the tuple of its path components, the extension last:
\* /src/User.ts is <<"src", "User", ".ts">>.
DtsSuffix == ".macroforge.d.ts"

FileA == <<"src", "User", ".ts">>
FileX == <<"node_modules", "lib", ".ts">>

SourceFiles == {FileA}
HostFiles == SourceFiles \cup {FileX}

\* fileName + ".macroforge.d.ts"
VirtualName(fileName) == Append(fileName, DtsSuffix)
\* fileName.replace(".macroforge.d.ts", "")
SourceName(fileName) ==
    IF \E i \in 1..Len(fileName) : fileName[i] = DtsSuffix
    THEN LET i == CHOOSE k \in 1..Len(fileName) :
                    /\ fileName[k] = DtsSuffix
                    /\ \A m \in 1..(k - 1) : fileName[m] # DtsSuffix
         IN SubSeq(fileName, 1, i - 1) \o SubSeq(fileName, i + 1, Len(fileName))
    ELSE fileName

RequestNames == HostFiles \cup {VirtualName(f) : f \in SourceFiles}

FILE_EXTENSIONS == {".ts", ".tsx", ".svelte"}

LowerName(part) ==
    CASE part = "Node_Modules" -> "node_modules"
      [] part = ".TS" -> ".ts"
      [] OTHER -> part

shouldProcess(fileName) ==
    IF \E i \in 1..Len(fileName) : LowerName(fileName[i]) = "node_modules" THEN FALSE
    ELSE IF \E i \in 1..(Len(fileName) - 1) : fileName[i] = ".macroforge" THEN FALSE
    ELSE IF Len(fileName) > 0 /\ fileName[Len(fileName)] = DtsSuffix THEN FALSE
    ELSE Len(fileName) > 0 /\ LowerName(fileName[Len(fileName)]) \in FILE_EXTENSIONS


\* ------------------------------------------------------------------ texts
\* "class A{}"
TextPlain == <<"c","l","a","s","s"," ","A","{","}">>
\* "@derive(Debug)class A{}"
TextDerive == <<"@","d","e","r","i","v","e","(","D","e","b","u","g",")",
                "c","l","a","s","s"," ","A","{","}">>
\* "@derive(Clone)I{}@derive(Debug)C{}"
TextTwo == <<"@","d","e","r","i","v","e","(","C","l","o","n","e",")","I","{","}",
             "@","d","e","r","i","v","e","(","D","e","b","u","g",")","C","{","}">>
\* " "
TextBlank == <<" ">>

Texts == {TextPlain, TextDerive, TextTwo, TextBlank}

\* hasMacroDirectives of every text the host serves, computed once
DirectiveTable == [t \in Texts |-> hasMacroDirectives(t)]

\* ----------------------------------------------------------- the Expander
\* nativePlugin.processFile is an external collaborator.  Its result for a
\* text is one of: an exception; the text unchanged; or the text with GenLen
\* generated characters spliced in before the closing character, described
\* by two segments and one generated region, with or without generated
\* type declarations.
GenLen == 3

NameDebug == <<"D","e","b","u","g">>

NoMapping == [present |-> FALSE, segments |-> <<>>, generatedRegions |-> <<>>]

MappingOf(text) ==
    LET n == Len(text) IN
    [present |-> TRUE,
     segments |-> << [originalStart |-> 0, originalEnd |-> n - 1,
                      expandedStart |-> 0, expandedEnd |-> n - 1],
                     [originalStart |-> n - 1, originalEnd |-> n,
                      expandedStart |-> n - 1 + GenLen, expandedEnd |-> n + GenLen] >>,
     generatedRegions |-> << [start |-> n - 1, end |-> n - 1 + GenLen,
                              sourceMacro |-> NameDebug] >>]

ExpandedCode(text) ==
    LET n == Len(text) IN
    SubSeq(text, 1, n - 1) \o [i \in 1..GenLen |-> "g"] \o SubSeq(text, n, n)

TypesText == <<"d","e","c","l">>

ExpanderOutcomesOf(text) ==
    IF Includes(text, StrDerive)
    THEN {"throw", "same", "expanded", "expandedNoTypes"}
    ELSE {"throw", "same"}

OutcomeTable == [t \in Texts |-> ExpanderOutcomesOf(t)]
ExpanderOutcomes(text) == OutcomeTable[text]

\* the ExpandResult of nativePlugin.processFile(fileName, text, {version})
\* for an outcome other than "throw"
ExpandResultOf(text, outcome) ==
    IF outcome \in {"expanded", "expandedNoTypes"}
    THEN [code |-> ExpandedCode(text),
          types |-> IF outcome = "expanded" THEN TypesText ELSE <<>>,
          sourceMapping |-> MappingOf(text)]
    ELSE [code |-> text, types |-> <<>>, sourceMapping |-> NoMapping]

\* the result processFile builds for empty content and after a failure
IdentityResult(content) ==
    [code |-> content, types |-> <<>>, sourceMapping |-> NoMapping]

\* -------------------------------------------------------------- snapshots
\* An IScriptSnapshot object: reference identity is the whole record.
NoFile == <<>>
Undefined == [origin |-> "undefined", file |-> NoFile, id |-> 0, text |-> <<>>]
EmptySnapshot == [origin |-> "empty", file |-> NoFile, id |-> 0, text |-> <<>>]
ExpandedSnapshot(fileName, id, code) ==
    [origin |-> "expanded", file |-> fileName, id |-> id, text |-> code]
TypesSnapshot(fileName, types) ==
    [origin |-> "types", file |-> fileName, id |-> 0, text |-> types]

\* ------------------------------------------------------------------ state
VARIABLES
    hostVersion,      \* host: version of each file it serves
    hostText,         \* host: original text of each file it serves
    virtualDtsFiles,  \* Map: virtual .macroforge.d.ts name -> snapshot
    snapshotCache,    \* Map: source file -> [version, snapshot]
    processingFiles,  \* Set of files being expanded by getScriptSnapshot
    nativeMapper,     \* native plugin: source mapping of its last result
    stack,            \* Expander calls in progress, outermost first
    nextId,           \* identity of the next expanded snapshot object
    ret,              \* the request that completed last, and its result
    invokedAt,        \* history: the version of each file's last Expander call
    served,           \* history: what getScriptSnapshot last returned for each
                      \* file from the snapshot cache or from an expansion
    lastTypes         \* history: the types the last Expander call that ended
                      \* returned for each file (none: no call, or it threw)

vars == <<hostVersion, hostText, virtualDtsFiles, snapshotCache,
          processingFiles, nativeMapper, stack, nextId, ret, invokedAt, served,
          lastTypes>>


\* ------------------------------------------------------------ Map helpers
MapSet(m, k, val) == [x \in DOMAIN m \cup {k} |-> IF x = k THEN val ELSE m[x]]
MapDelete(m, k) == [x \in DOMAIN m \ {k} |-> m[x]]

\* --------------------------------------------------------------- the host
\* Each call of a host function returns or throws; originalGetScriptSnapshot
\* may also return undefined (the file is gone).
HostOutcomes == {"ok", "undefined", "throw"}
VersionOutcomes == {"ok", "throw"}

\* The outcomes of the host calls of one getScriptSnapshot request: the first
\* originalGetScriptSnapshot call, getScriptVersion, and the
\* originalGetScriptSnapshot call of the catch block.  A call that is not
\* reached has outcome "ok".
HostScenarios ==
    {sc \in HostOutcomes \X VersionOutcomes \X HostOutcomes :
        /\ sc[2] = "throw" => sc[1] = "ok"
        /\ sc[3] # "ok" => (sc[1] = "throw" \/ sc[2] = "throw")}

\* the snapshot object the host keeps for a file: the same object until the
\* file is edited
HostSnapshot(name) ==
    IF name \in HostFiles
    THEN [origin |-> "host", file |-> name, id |-> hostVersion[name],
          text |-> hostText[name]]
    ELSE Undefined

originalGetScriptSnapshot(name, outcome) ==
    IF outcome = "ok" THEN HostSnapshot(name) ELSE Undefined

originalGetScriptVersion(name) ==
    IF name \in HostFiles THEN hostVersion[name] ELSE 0

\* a version that does not follow the host's edits
getScriptVersion_Initial(name) == 1

\* Hook getScriptVersion
getScriptVersion(name) ==
    IF name \in DOMAIN virtualDtsFiles
    THEN originalGetScriptVersion(SourceName(name))
    ELSE originalGetScriptVersion(name)

\* Hook fileExists (the host itself knows the files of HostFiles)
fileExists(name) ==
    IF name \in DOMAIN virtualDtsFiles THEN TRUE ELSE name \in HostFiles

\* Hook getScriptFileNames, as a set
getScriptFileNames == HostFiles \cup DOMAIN virtualDtsFiles

\* ------------------------------------------------------------ processFile
\* processFile calls the Expander unless the content is empty or blank
CallsExpander(content) == ~(content = <<>> \/ IsBlank(content))

\* result of processFile once the Expander call has ended with outcome
ProcessFileResult(content, outcome) ==
    IF outcome = "throw" THEN IdentityResult(content)
    ELSE ExpandResultOf(content, outcome)

\* a processFile whose catch block leaves the virtual file registered
ProcessFileVirtual_NoCleanup(vfiles, fileName, content, outcome) ==
    LET result == ProcessFileResult(content, outcome) IN
    IF outcome # "throw" /\ result.types # <<>>
    THEN MapSet(vfiles, VirtualName(fileName), TypesSnapshot(fileName, result.types))
    ELSE vfiles

\* a processFile that leaves the virtual file of an earlier result registered
\* when the new result has no types
ProcessFileVirtual_KeepStale(vfiles, fileName, content, outcome) ==
    LET result == ProcessFileResult(content, outcome) IN
    IF outcome # "throw" /\ result.types # <<>>
    THEN MapSet(vfiles, VirtualName(fileName), TypesSnapshot(fileName, result.types))
    ELSE IF outcome # "throw" THEN vfiles
    ELSE MapDelete(vfiles, VirtualName(fileName))

\* virtualDtsFiles after processFile once the Expander call has ended
ProcessFileVirtual(vfiles, fileName, content, outcome) ==
    LET result == ProcessFileResult(content, outcome) IN
    IF outcome # "throw" /\ result.types # <<>>
    THEN MapSet(vfiles, VirtualName(fileName), TypesSnapshot(fileName, result.types))
    ELSE MapDelete(vfiles, VirtualName(fileName))

\* the native plugin's mapper of the file after the Expander call
NativeMapperAfter(mappers, fileName, content, outcome) ==
    IF outcome = "throw" THEN mappers
    ELSE [mappers EXCEPT ![fileName] = ExpandResultOf(content, outcome).sourceMapping]

\* -------------------------------------------------------- PositionMapper
\* The mapper nativePlugin.getMapper returns is built from the source mapping
\* of the native plugin's last result for the file.  None is the null result.
None == [ok |-> FALSE, start |-> 0, length |-> 0]
Span(start, length) == [ok |-> TRUE, start |-> start, length |-> length]

SegmentAt(mapping, pos) ==
    {i \in 1..Len(mapping.segments) :
        /\ mapping.segments[i].expandedStart <= pos
        /\ pos < mapping.segments[i].expandedEnd}

\* a span mapping that maps the two endpoints independently
mapSpanToOriginal_Endpoints(mapping, start, length) ==
    LET first == SegmentAt(mapping, start)
        last == SegmentAt(mapping, start + length)
    IN  IF first = {} \/ last = {} THEN None
        ELSE LET a == mapping.segments[CHOOSE i \in first : TRUE]
                 b == mapping.segments[CHOOSE i \in last : TRUE]
                 from == a.originalStart + (start - a.expandedStart)
                 to == b.originalStart + (start + length - b.expandedStart)
             IN Span(from, to - from)

\* the span must lie within one segment
mapSpanToOriginal(mapping, start, length) ==
    LET segs == SegmentAt(mapping, start) IN
    IF segs = {} THEN None
    ELSE LET seg == mapping.segments[CHOOSE i \in segs : TRUE] IN
         IF start + length <= seg.expandedEnd
         THEN Span(seg.originalStart + (start - seg.expandedStart), length)
         ELSE None

RegionAt(mapping, pos) ==
    {i \in 1..Len(mapping.generatedRegions) :
        /\ mapping.generatedRegions[i].start <= pos
        /\ pos < mapping.generatedRegions[i].end}

isInGenerated(mapping, pos) == RegionAt(mapping, pos) # {}

\* the attributed macro, or NullName for null
NullName == <<"null">>
generatedBy(mapping, pos) ==
    IF RegionAt(mapping, pos) = {} THEN NullName
    ELSE mapping.generatedRegions[CHOOSE i \in RegionAt(mapping, pos) :
                                    \A j \in RegionAt(mapping, pos) : i <= j].sourceMacro

isEmpty(mapping) ==
    \/ ~mapping.present
    \/ /\ mapping.generatedRegions = <<>>
       /\ Len(mapping.segments) = 1
       /\ mapping.segments[1].originalStart = mapping.segments[1].expandedStart
       /\ mapping.segments[1].originalEnd = mapping.segments[1].expandedEnd

\* the segment whose original range [originalStart, originalEnd) holds pos
OriginalSegmentAt(mapping, pos) ==
    {i \in 1..Len(mapping.segments) :
        /\ mapping.segments[i].originalStart <= pos
        /\ pos < mapping.segments[i].originalEnd}

\* the segment that ends at pos (the choice a right-closed lookup makes at a
\* boundary), else the segment that holds pos
originalToExpanded_RightClosed(mapping, pos) ==
    LET ends == {i \in 1..Len(mapping.segments) :
                    /\ mapping.segments[i].originalStart < pos
                    /\ pos <= mapping.segments[i].originalEnd}
        n == Len(mapping.segments)
    IN  IF ends # {}
        THEN LET seg == mapping.segments[CHOOSE i \in ends : \A j \in ends : i <= j]
             IN seg.expandedStart + (pos - seg.originalStart)
        ELSE IF n = 0 THEN pos
        ELSE mapping.segments[1].expandedStart + (pos - mapping.segments[1].originalStart)

\* Total: the segment starting at pos wins at a boundary; a position at or
\* past the end of the original text keeps the offset of the last segment.
originalToExpanded(mapping, pos) ==
    LET segs == OriginalSegmentAt(mapping, pos)
        n == Len(mapping.segments)
    IN  IF segs # {}
        THEN LET seg == mapping.segments[CHOOSE i \in segs : TRUE]
             IN seg.expandedStart + (pos - seg.originalStart)
        ELSE IF n = 0 THEN pos
        ELSE mapping.segments[n].expandedEnd + (pos - mapping.segments[n].originalEnd)

\* the null position
NoPosition == -1

\* a lookup that slides a position of generated code to the segment before it
expandedToOriginal_Nearest(mapping, pos) ==
    LET before == {i \in 1..Len(mapping.segments) :
                      mapping.segments[i].expandedStart <= pos}
    IN  IF before = {} THEN NoPosition
        ELSE LET seg == mapping.segments[CHOOSE i \in before : \A j \in before : j <= i]
             IN IF pos < seg.expandedEnd
                THEN seg.originalStart + (pos - seg.expandedStart)
                ELSE seg.originalEnd

\* Partial: a position in a segment's expanded range, else NoPosition
expandedToOriginal(mapping, pos) ==
    LET segs == SegmentAt(mapping, pos) IN
    IF segs = {} THEN NoPosition
    ELSE LET seg == mapping.segments[CHOOSE i \in segs : TRUE]
         IN seg.originalStart + (pos - seg.expandedStart)

\* Total: originalToExpanded of both endpoints
mapSpanToExpanded(mapping, start, length) ==
    Span(originalToExpanded(mapping, start),
         originalToExpanded(mapping, start + length)
            - originalToExpanded(mapping, start))

\* ------------------------------------------------------------ diagnostics
\* A diagnostic; start = -1 and length = -1 stand for undefined.
Diag(start, length, messageText, category, code, source) ==
    [start |-> start, length |-> length, messageText |-> messageText,
     category |-> category, code |-> code, source |-> source]

\* a callback that marks the diagnostics it maps
MapDiagnostic_Retag(mapper, diag) ==
    IF diag.start = -1 \/ diag.length = -1
    THEN [kind |-> "keep", diag |-> diag]
    ELSE LET mapped == mapSpanToOriginal(mapper, diag.start, diag.length) IN
         IF ~mapped.ok
         THEN IF isInGenerated(mapper, diag.start)
              THEN [kind |-> "generated", diag |-> diag]
              ELSE [kind |-> "keep", diag |-> diag]
         ELSE [kind |-> "keep",
               diag |-> [diag EXCEPT !.start = mapped.start, !.length = mapped.length,
                                     !.source = "macroforge"]]

\* mapSpanToOriginal branch of getSemanticDiagnostics for one diagnostic:
\* kind "keep" (returned, mapped or as it is) or "generated" (collected)
MapDiagnostic(mapper, diag) ==
    IF diag.start = -1 \/ diag.length = -1
    THEN [kind |-> "keep", diag |-> diag]
    ELSE LET mapped == mapSpanToOriginal(mapper, diag.start, diag.length) IN
         IF ~mapped.ok
         THEN IF isInGenerated(mapper, diag.start)
              THEN [kind |-> "generated", diag |-> diag]
              ELSE [kind |-> "keep", diag |-> diag]
         ELSE [kind |-> "keep",
               diag |-> [diag EXCEPT !.start = mapped.start, !.length = mapped.length]]

RECURSIVE SelectKind(_, _, _)
SelectKind(mapper, diags, kind) ==
    IF diags = <<>> THEN <<>>
    ELSE LET m == MapDiagnostic(mapper, Head(diags)) IN
         (IF m.kind = kind THEN <<m.diag>> ELSE <<>>)
            \o SelectKind(mapper, Tail(diags), kind)

\* nativePlugin.mapDiagnostics for a file without a usable mapper: the
\* positions it is given
NativeMapDiagnostics(diags) ==
    [i \in 1..Len(diags) |-> [start |-> diags[i].start, length |-> diags[i].length]]

applyMappedDiagnostics(original, mapped) ==
    [i \in 1..Len(original) |->
        IF i > Len(mapped) \/ mapped[i].start = -1 \/ mapped[i].length = -1
        THEN original[i]
        ELSE [original[i] EXCEPT !.start = mapped[i].start,
                                 !.length = mapped[i].length]]

\* mappedDiagnostics and generatedCodeDiagnostics of getSemanticDiagnostics
MappedDiagnostics(mapper, diags) ==
    IF ~isEmpty(mapper) THEN SelectKind(mapper, diags, "keep")
    ELSE applyMappedDiagnostics(diags, NativeMapDiagnostics(diags))

GeneratedCodeDiagnostics(mapper, diags) ==
    IF ~isEmpty(mapper) THEN SelectKind(mapper, diags, "generated") ELSE <<>>

\* ------------------------------------------- generated-code diagnostics
Letters ==
    {"a","b","c","d","e","f","g","h","i","j","k","l","m","n","o","p","q","r",
     "s","t","u","v","w","x","y","z",
     "A","B","C","D","E","F","G","H","I","J","K","L","M","N","O","P","Q","R",
     "S","T","U","V","W","X","Y","Z"}
Digits == {"0","1","2","3","4","5","6","7","8","9"}
IsIdentStart(c) == c \in Letters \cup {"_"}
IsIdentChar(c) == c \in Letters \cup Digits \cup {"_"}

\* index of the first c at or after i, or 0
RECURSIVE IndexOfChar(_, _, _)
IndexOfChar(text, c, i) ==
    IF i > Len(text) THEN 0
    ELSE IF text[i] = c THEN i
    ELSE IndexOfChar(text, c, i + 1)

\* end of the identifier that starts at i
RECURSIVE IdentEnd(_, _)
IdentEnd(text, i) ==
    IF i + 1 <= Len(text) /\ IsIdentChar(text[i + 1]) THEN IdentEnd(text, i + 1) ELSE i

\* macroNameRegex /([A-Za-z_][A-Za-z0-9_]*)/g over the argument text; offsets
\* are 0-based offsets in the file (argsStart + match index)
RECURSIVE MacroNames(_, _, _)
MacroNames(argsText, i, argsStart) ==
    IF i > Len(argsText) THEN <<>>
    ELSE IF IsIdentStart(argsText[i])
    THEN LET e == IdentEnd(argsText, i) IN
         <<[name |-> SubSeq(argsText, i, e), start |-> argsStart + (i - 1),
            length |-> e - i + 1]>> \o MacroNames(argsText, e + 1, argsStart)
    ELSE MacroNames(argsText, i + 1, argsStart)

\* deriveRegex /@derive\s*\(([^)]*)\)/g : the decorators of the text in order
RECURSIVE DeriveDecorators(_, _)
DeriveDecorators(text, i) ==
    IF i > Len(text) THEN <<>>
    ELSE LET paren == SkipWs(text, i + 7)
             close == IndexOfChar(text, ")", paren + 1)
         IN IF /\ StartsAt(text, StrDerive, i)
               /\ StartsAt(text, <<"(">>, paren)
               /\ close # 0
            THEN <<[fullStart |-> i - 1, fullLength |-> close - i + 1,
                    macros |-> MacroNames(SubSeq(text, paren + 1, close - 1), 1, paren)]>>
                 \o DeriveDecorators(text, close + 1)
            ELSE DeriveDecorators(text, i + 1)

\* first macro of the decorator with that name, as a set of indexes
MacroNamed(dec, macroName) ==
    {i \in 1..Len(dec.macros) :
        /\ dec.macros[i].name = macroName
        /\ \A j \in 1..(i - 1) : dec.macros[j].name # macroName}

DefaultPosition == [start |-> 0, length |-> 7]
NameMacro == <<"m","a","c","r","o">>

\* insertionPointInOriginal: originalEnd of the last segment that ends at or
\* before the region
RECURSIVE InsertionPoint(_, _, _, _)
InsertionPoint(segments, i, regionStart, acc) ==
    IF i > Len(segments) THEN acc
    ELSE InsertionPoint(segments, i + 1, regionStart,
                        IF segments[i].expandedEnd <= regionStart
                        THEN segments[i].originalEnd ELSE acc)

\* index of nearestDecorator: the loop stops at the first decorator that does
\* not start before the insertion point
RECURSIVE NearestDecorator(_, _, _, _)
NearestDecorator(decorators, i, insertion, acc) ==
    IF i > Len(decorators) THEN acc
    ELSE IF decorators[i].fullStart < insertion
    THEN NearestDecorator(decorators, i + 1, insertion, i)
    ELSE acc

\* the position inside a decorator, without the step for the only macro
PositionIn_NoSole(dec, macroName, soleFallback) ==
    IF MacroNamed(dec, macroName) # {}
    THEN LET m == dec.macros[CHOOSE i \in MacroNamed(dec, macroName) : TRUE] IN
         [start |-> m.start, length |-> m.length]
    ELSE [start |-> dec.fullStart, length |-> dec.fullLength]

PositionIn(dec, macroName, soleFallback) ==
    IF MacroNamed(dec, macroName) # {}
    THEN LET m == dec.macros[CHOOSE i \in MacroNamed(dec, macroName) : TRUE] IN
         [start |-> m.start, length |-> m.length]
    ELSE IF soleFallback /\ macroName \in {NameMacro, <<>>} /\ Len(dec.macros) = 1
    THEN [start |-> dec.macros[1].start, length |-> dec.macros[1].length]
    ELSE [start |-> dec.fullStart, length |-> dec.fullLength]

findMacroPosition(sourceMapping, decorators, expandedPos, macroName) ==
    LET regions == RegionAt(sourceMapping, expandedPos) IN
    IF regions = {}
    THEN IF decorators # <<>>
         THEN PositionIn(decorators[1], macroName, FALSE)
         ELSE DefaultPosition
    ELSE LET region == sourceMapping.generatedRegions[
                           CHOOSE i \in regions : \A j \in regions : i <= j]
             insertion == InsertionPoint(sourceMapping.segments, 1, region.start, 0)
             nearest == NearestDecorator(decorators, 1, insertion, 1)
         IN IF decorators # <<>>
            THEN PositionIn(decorators[nearest], macroName, TRUE)
            ELSE DefaultPosition

\* macroName.split("::").pop()
RECURSIVE LastPiece(_, _, _)
LastPiece(name, i, pieceStart) ==
    IF i > Len(name) THEN SubSeq(name, pieceStart, Len(name))
    ELSE IF StartsAt(name, <<":", ":">>, i) THEN LastPiece(name, i + 2, i + 2)
    ELSE LastPiece(name, i + 1, pieceStart)

SimpleMacroName(macroName) ==
    IF Includes(macroName, <<":", ":">>) THEN LastPiece(macroName, 1, 1) ELSE macroName

RelocatedCode == 9998
MacroDiagnosticCode == 9999

Prefixed(macroName, messageText) ==
    <<"[">> \o macroName \o <<"]", " ">> \o messageText

\* the diagnostic built for one collected diagnostic when the result has a
\* source mapping
RelocateWithMapping(mapper, sourceMapping, decorators, diag) ==
    LET diagStart == IF diag.start = -1 THEN 0 ELSE diag.start
        fromMapper == generatedBy(mapper, diagStart)
        fromRegion == generatedBy(sourceMapping, diagStart)
        macroName == IF fromMapper \notin {NullName, <<>>} THEN fromMapper
                     ELSE IF fromRegion # NullName THEN fromRegion
                     ELSE NameMacro
        simple == SimpleMacroName(macroName)
        position == findMacroPosition(sourceMapping, decorators, diagStart, simple)
    IN Diag(position.start, position.length, Prefixed(simple, diag.messageText),
            diag.category, RelocatedCode, "macroforge-generated")

\* text.match(/@derive\s*\(/): 0-based index and length of the first match,
\* or length 0
RECURSIVE FirstDeriveOpen(_, _)
FirstDeriveOpen(text, i) ==
    IF i > Len(text) THEN [index |-> 0, length |-> 0]
    ELSE LET paren == SkipWs(text, i + 7) IN
         IF StartsAt(text, StrDerive, i) /\ StartsAt(text, <<"(">>, paren)
         THEN [index |-> i - 1, length |-> paren - i + 1]
         ELSE FirstDeriveOpen(text, i + 1)

\* the diagnostic built for one collected diagnostic when the result has no
\* source mapping
RelocateWithoutMapping(mapper, text, diag) ==
    LET m == FirstDeriveOpen(text, 1)
        diagStart == IF diag.start = -1 THEN 0 ELSE diag.start
        fromMapper == generatedBy(mapper, diagStart)
        macroName == IF fromMapper # NullName THEN fromMapper ELSE NameMacro
    IN Diag(IF m.length = 0 THEN 0 ELSE m.index,
            IF m.length = 0 THEN 7 ELSE m.length,
            Prefixed(macroName, diag.messageText),
            diag.category, RelocatedCode, "macroforge-generated")

\* generatedDiagsAsMacro
GeneratedDiagsAsMacro(mapper, result, text, generated) ==
    IF generated # <<>> /\ result.sourceMapping.present
    THEN [i \in 1..Len(generated) |->
            RelocateWithMapping(mapper, result.sourceMapping,
                                DeriveDecorators(text, 1), generated[i])]
    ELSE [i \in 1..Len(generated) |-> RelocateWithoutMapping(mapper, text, generated[i])]

\* macroDiagnostics: the diagnostics the Expander reported; start and end 0
\* stand for undefined as well
MacroDiagnostics(expanderDiagnostics) ==
    [i \in 1..Len(expanderDiagnostics) |->
        LET d == expanderDiagnostics[i] IN
        Diag(d.start, d.end - d.start, d.message,
             IF d.level = "error" THEN "error"
             ELSE IF d.level = "warning" THEN "warning" ELSE "message",
             MacroDiagnosticCode, "macroforge")]

\* the list getSemanticDiagnostics returns after processFile
DiagnosticsResult(mapped, macroDiags, generatedAsMacro) ==
    IF macroDiags = <<>> THEN mapped \o generatedAsMacro
    ELSE mapped \o macroDiags \o generatedAsMacro

\* ------------------------------------------------- Hook getScriptSnapshot
\* The locals of a hook whose Expander call is in progress; input is the
\* list originalGetSemanticDiagnostics returned.
Frame(hook, fileName, text, version, snapshot, input, mapped, generated, mapper) ==
    [hook |-> hook, file |-> fileName, text |-> text, version |-> version,
     snapshot |-> snapshot, input |-> input, mapped |-> mapped,
     generated |-> generated, mapper |-> mapper]

\* The record of a completed request: the hook, its argument, the number of
\* Expander calls in progress around it, the path it took, and what it
\* returned; for getSemanticDiagnostics also the host's diagnostics and the
\* mapper it worked with.  prior is the version of the file's snapshotCache
\* entry when the request returned (0: no entry), before the hook replaced it.
Return(hook, fileName, depth, path, snap, diags, input, mapper) ==
    [hook |-> hook, file |-> fileName, depth |-> depth, path |-> path,
     snap |-> snap, diags |-> diags, input |-> input, mapper |-> mapper,
     prior |-> IF fileName \in DOMAIN snapshotCache
               THEN snapshotCache[fileName].version ELSE 0]

\* no request has completed since the caller took the last result
NoReturn == Return("none", NoFile, 0, "none", Undefined, <<>>, <<>>, NoMapping)

\* the catch block of the hook
GssCatch(name, o2) ==
    [path |-> IF o2 = "throw" THEN "threw" ELSE "fallback",
     snap |-> originalGetScriptSnapshot(name, o2),
     processing |-> processingFiles \ {name}]

\* a finally block that leaves the file in the set
GssFinally_Keep(processing, name) == processing

\* the finally block of the hook
GssFinally(processing, name) == processing \ {name}

\* a cache that never answers
CacheHit_Never(name, version) == FALSE

\* the cache entry that makes the hook return without expanding
CacheHit(name, version) ==
    /\ name \in DOMAIN snapshotCache
    /\ snapshotCache[name].version = version

\* The hook up to the call of processFile.  o1 is the outcome of the first
\* originalGetScriptSnapshot call, ov of getScriptVersion, o2 of the
\* originalGetScriptSnapshot call in the catch block.  path "expand" means
\* the hook has added the file to processingFiles and calls processFile.
GssOutcome(name, o1, ov, o2) ==
    IF name \in DOMAIN virtualDtsFiles
    THEN [path |-> "virtual", snap |-> virtualDtsFiles[name],
          processing |-> processingFiles]
    ELSE IF o1 = "throw" THEN GssCatch(name, o2)
    ELSE IF name \in processingFiles
    THEN [path |-> "reentrant", snap |-> originalGetScriptSnapshot(name, o1),
          processing |-> processingFiles]
    ELSE IF ~shouldProcess(name)
    THEN [path |-> "excluded", snap |-> originalGetScriptSnapshot(name, o1),
          processing |-> processingFiles]
    ELSE IF originalGetScriptSnapshot(name, o1) = Undefined
    THEN [path |-> "nosnapshot", snap |-> EmptySnapshot,
          processing |-> processingFiles]
    ELSE IF ~DirectiveTable[HostSnapshot(name).text]
    THEN [path |-> "nomacro", snap |-> HostSnapshot(name),
          processing |-> processingFiles]
    ELSE IF ov = "throw" THEN GssCatch(name, o2)
    ELSE IF CacheHit(name, getScriptVersion(name))
    THEN [path |-> "cachehit", snap |-> snapshotCache[name].snapshot,
          processing |-> GssFinally(processingFiles \cup {name}, name)]
    ELSE [path |-> "expand", snap |-> HostSnapshot(name),
          processing |-> processingFiles \cup {name}]

\* a request that returns (or throws) without calling the Expander
GetScriptSnapshot(name) ==
    /\ ret = NoReturn
    /\ \E sc \in HostScenarios :
        LET r == GssOutcome(name, sc[1], sc[2], sc[3]) IN
        /\ r.path # "expand"
        /\ processingFiles' = r.processing
        /\ ret' = Return("getScriptSnapshot", name, Len(stack), r.path, r.snap,
                         <<>>, <<>>, NoMapping)
        /\ served' = IF r.path = "cachehit"
                     THEN [served EXCEPT ![name] =
                              [version |-> getScriptVersion(name), snapshot |-> r.snap]]
                     ELSE served
        /\ UNCHANGED <<hostVersion, hostText, virtualDtsFiles, snapshotCache,
                       nativeMapper, stack, nextId, invokedAt, lastTypes>>

\* a request that reaches processFile: the Expander call starts
GetScriptSnapshotBegin(name) ==
    /\ ret = NoReturn
    /\ Len(stack) < MaxDepth
    /\ LET r == GssOutcome(name, "ok", "ok", "ok") IN
        /\ r.path = "expand"
        /\ processingFiles' = r.processing
        /\ stack' = Append(stack, Frame("getScriptSnapshot", name, r.snap.text,
                                        getScriptVersion(name), r.snap,
                                        <<>>, <<>>, <<>>, NoMapping))
        /\ invokedAt' = [invokedAt EXCEPT ![name] = getScriptVersion(name)]
        /\ UNCHANGED <<hostVersion, hostText, virtualDtsFiles, snapshotCache,
                       nativeMapper, nextId, ret, served, lastTypes>>

\* what the hook caches and returns after processFile returned code
GssSnapshotFor(frame, code, id) ==
    IF code # <<>> /\ code # frame.text
    THEN ExpandedSnapshot(frame.file, id, code)
    ELSE frame.snapshot

\* the Expander call of the innermost getScriptSnapshot ends; the hook
\* stores the snapshot and returns it
GetScriptSnapshotEnd ==
    /\ ret = NoReturn
    /\ stack # <<>>
    /\ stack[Len(stack)].hook = "getScriptSnapshot"
    /\ LET frame == stack[Len(stack)] IN
       \E outcome \in ExpanderOutcomes(frame.text) :
        LET code == ProcessFileResult(frame.text, outcome).code
            snap == GssSnapshotFor(frame, code, nextId)
        IN
        /\ snap.origin = "expanded" => nextId <= MaxAlloc
        /\ virtualDtsFiles' = ProcessFileVirtual(virtualDtsFiles, frame.file,
                                                 frame.text, outcome)
        /\ nativeMapper' = NativeMapperAfter(nativeMapper, frame.file,
                                             frame.text, outcome)
        /\ snapshotCache' = MapSet(snapshotCache, frame.file,
                                   [version |-> frame.version, snapshot |-> snap])
        /\ nextId' = IF snap.origin = "expanded" THEN nextId + 1 ELSE nextId
        /\ processingFiles' = GssFinally(processingFiles, frame.file)
        /\ stack' = SubSeq(stack, 1, Len(stack) - 1)
        /\ ret' = Return("getScriptSnapshot", frame.file, Len(stack) - 1,
                         IF outcome = "throw" THEN "failed"
                         ELSE IF snap.origin = "expanded" THEN "expanded"
                         ELSE "unchanged",
                         snap, <<>>, <<>>, NoMapping)
        /\ served' = [served EXCEPT ![frame.file] =
                          [version |-> frame.version, snapshot |-> snap]]
        /\ lastTypes' = [lastTypes EXCEPT ![frame.file] =
                             IF outcome = "throw" THEN <<>>
                             ELSE ProcessFileResult(frame.text, outcome).types]
        /\ UNCHANGED <<hostVersion, hostText, invokedAt>>

\* -------------------------------------------- Hook getSemanticDiagnostics
\* The diagnostics the host's language service reports for a file (in the
\* coordinates of the text it analyses): at most MaxDiags of these.
HostDiagnostics ==
    {Diag(25, 1, <<"m">>, "error", 2322, "ts"),
     Diag(20, 3, <<"m">>, "error", 2322, "ts"),
     Diag(22, 1, <<"m">>, "warning", 2339, "ts"),
     Diag(-1, -1, <<"m">>, "error", 2307, "ts")}

RECURSIVE DiagLists(_)
DiagLists(n) ==
    IF n = 0 THEN {<<>>}
    ELSE DiagLists(n - 1) \cup
         {Append(l, d) : l \in {x \in DiagLists(n - 1) : Len(x) = n - 1},
                         d \in HostDiagnostics}

\* The diagnostics the Expander reports in its result; start and end are
\* optional, 0 stands for a field that is not set.
ExpanderDiagnostics ==
    {<<>>,
     <<[level |-> "error", start |-> 8, end |-> 13, message |-> <<"e">>]>>,
     <<[level |-> "info", start |-> 8, end |-> 0, message |-> <<"e">>]>>}

\* Outcomes of the host calls of one getSemanticDiagnostics request: the
\* first originalGetSemanticDiagnostics call, originalGetScriptSnapshot,
\* getScriptVersion, and the originalGetSemanticDiagnostics call of the catch
\* block.  A call that is not reached has outcome "ok".
GsdScenarios ==
    {sc \in VersionOutcomes \X HostOutcomes \X VersionOutcomes \X VersionOutcomes :
        /\ sc[1] = "throw" => (sc[2] = "ok" /\ sc[3] = "ok")
        /\ sc[3] = "throw" => sc[2] = "ok"
        /\ sc[4] # "ok" => (sc[1] = "throw" \/ sc[2] = "throw" \/ sc[3] = "throw")}

\* a catch block that answers with no diagnostics
GsdCatch_Empty(diags, oc) ==
    [path |-> IF oc = "throw" THEN "threw" ELSE "fallback",
     diags |-> <<>>]

\* the catch block of the hook: the host's diagnostics as they are
GsdCatch(diags, oc) ==
    [path |-> IF oc = "throw" THEN "threw" ELSE "fallback",
     diags |-> IF oc = "throw" THEN <<>> ELSE diags]

\* The hook up to the call of processFile; diags is what
\* originalGetSemanticDiagnostics returns.  path "expand" means the hook
\* calls processFile with content that reaches the Expander.
GsdOutcome(name, diags, od, os, ov, oc) ==
    IF name \in DOMAIN virtualDtsFiles
    THEN [path |-> "virtual", diags |-> <<>>]
    ELSE IF od = "throw" THEN GsdCatch(diags, oc)
    ELSE IF ~shouldProcess(name)
    THEN [path |-> "excluded", diags |-> diags]
    ELSE IF os = "throw" THEN GsdCatch(diags, oc)
    ELSE IF originalGetScriptSnapshot(name, os) = Undefined
    THEN [path |-> "nosnapshot",
          diags |-> MappedDiagnostics(nativeMapper[name], diags)]
    ELSE IF ov = "throw" THEN GsdCatch(diags, oc)
    ELSE IF ~CallsExpander(HostSnapshot(name).text)
    THEN [path |-> "blank",
          diags |-> DiagnosticsResult(
                        MappedDiagnostics(nativeMapper[name], diags), <<>>,
                        GeneratedDiagsAsMacro(
                            nativeMapper[name],
                            IdentityResult(HostSnapshot(name).text),
                            HostSnapshot(name).text,
                            GeneratedCodeDiagnostics(nativeMapper[name], diags)))]
    ELSE [path |-> "expand", diags |-> diags]

\* a request that returns (or throws) without calling the Expander
GetSemanticDiagnostics(name, diags) ==
    /\ ret = NoReturn
    /\ stack = <<>>
    /\ \E sc \in GsdScenarios :
        LET r == GsdOutcome(name, diags, sc[1], sc[2], sc[3], sc[4]) IN
        /\ r.path # "expand"
        /\ ret' = Return("getSemanticDiagnostics", name, Len(stack), r.path,
                         Undefined, r.diags, diags,
                         IF name \in SourceFiles THEN nativeMapper[name]
                         ELSE NoMapping)
        /\ UNCHANGED <<hostVersion, hostText, virtualDtsFiles, snapshotCache,
                       processingFiles, nativeMapper, stack, nextId, invokedAt,
                   lastTypes, served>>

\* a request that reaches the Expander call of processFile
GetSemanticDiagnosticsBegin(name, diags) ==
    /\ ret = NoReturn
    /\ stack = <<>>
    /\ GsdOutcome(name, diags, "ok", "ok", "ok", "ok").path = "expand"
    /\ stack' = Append(stack, Frame("getSemanticDiagnostics", name,
                                    HostSnapshot(name).text, getScriptVersion(name),
                                    HostSnapshot(name), diags,
                                    MappedDiagnostics(nativeMapper[name], diags),
                                    GeneratedCodeDiagnostics(nativeMapper[name], diags),
                                    nativeMapper[name]))
    /\ invokedAt' = [invokedAt EXCEPT ![name] = getScriptVersion(name)]
    /\ UNCHANGED <<hostVersion, hostText, virtualDtsFiles, snapshotCache,
                   processingFiles, nativeMapper, nextId, ret, served,
                   lastTypes>>

\* the Expander call of getSemanticDiagnostics ends; the hook relocates the
\* collected diagnostics, adds the Expander's and returns
GetSemanticDiagnosticsEnd ==
    /\ ret = NoReturn
    /\ stack # <<>>
    /\ stack[Len(stack)].hook = "getSemanticDiagnostics"
    /\ LET frame == stack[Len(stack)] IN
       \E outcome \in ExpanderOutcomes(frame.text), reported \in ExpanderDiagnostics :
        LET result == ProcessFileResult(frame.text, outcome) IN
        /\ outcome = "throw" => reported = <<>>
        /\ virtualDtsFiles' = ProcessFileVirtual(virtualDtsFiles, frame.file,
                                                 frame.text, outcome)
        /\ nativeMapper' = NativeMapperAfter(nativeMapper, frame.file,
                                             frame.text, outcome)
        /\ stack' = SubSeq(stack, 1, Len(stack) - 1)
        /\ ret' = Return("getSemanticDiagnostics", frame.file, Len(stack) - 1,
                         IF outcome = "throw" THEN "failed" ELSE "done",
                         Undefined,
                         DiagnosticsResult(
                             frame.mapped, MacroDiagnostics(reported),
                             GeneratedDiagsAsMacro(frame.mapper, result,
                                                   frame.text, frame.generated)),
                         frame.input, frame.mapper)
        /\ lastTypes' = [lastTypes EXCEPT ![frame.file] =
                             IF outcome = "throw" THEN <<>> ELSE result.types]
        /\ UNCHANGED <<hostVersion, hostText, snapshotCache, processingFiles,
                       nextId, invokedAt, served>>

\* ------------------------------------------------------------ macro hover
\* Results of the queries are records of one shape; NoResult is undefined.
Result(kind, start, length, definitions, message) ==
    [kind |-> kind, start |-> start, length |-> length,
     definitions |-> definitions, message |-> message]

NoResult == Result("undefined", 0, 0, <<>>, <<>>)

\* the result of a finder: a name and its span [start, end), or no match
NoMatch == [ok |-> FALSE, name |-> <<>>, start |-> 0, end |-> 0]
Match(name, start, end) == [ok |-> TRUE, name |-> name, start |-> start, end |-> end]

\* /@derive(?=\s*\()/gi : the 1-based indexes of the matches
DeriveKeywords(text) ==
    {i \in 1..(Len(text) - Len(StrDerive) + 1) :
        /\ LowerText(SubSeq(text, i, i + Len(StrDerive) - 1)) = StrDerive
        /\ StartsAt(text, <<"(">>, SkipWs(text, i + Len(StrDerive)))}

findDeriveKeywordAtPosition(text, position) ==
    LET hits == {i \in DeriveKeywords(text) :
                    position >= i - 1 /\ position < i - 1 + Len(StrDerive)}
    IN  IF hits = {} THEN NoMatch
        ELSE LET i == CHOOSE h \in hits : \A k \in hits : h <= k
             IN Match(StrDerive, i - 1, i - 1 + Len(StrDerive))

\* /@derive\s*\(\s*([^)]+)\s*\)/gi : the matches in order, each with the
\* 1-based indexes of its "@", "(" and ")"
RECURSIVE DeriveMatches(_, _)
DeriveMatches(text, i) ==
    IF i > Len(text) THEN <<>>
    ELSE LET paren == SkipWs(text, i + Len(StrDerive))
             close == IndexOfChar(text, ")", paren + 1)
         IN IF /\ i + Len(StrDerive) - 1 <= Len(text)
               /\ LowerText(SubSeq(text, i, i + Len(StrDerive) - 1)) = StrDerive
               /\ StartsAt(text, <<"(">>, paren)
               /\ close > paren + 1
            THEN <<[at |-> i, paren |-> paren, close |-> close]>>
                 \o DeriveMatches(text, close + 1)
            ELSE DeriveMatches(text, i + 1)

\* String.prototype.split(",")
RECURSIVE SplitComma(_)
SplitComma(text) ==
    LET c == IndexOfChar(text, ",", 1) IN
    IF c = 0 THEN <<text>>
    ELSE <<SubSeq(text, 1, c - 1)>> \o SplitComma(SubSeq(text, c + 1, Len(text)))

\* String.prototype.trim
RECURSIVE TrimEnd(_)
TrimEnd(text) ==
    IF text # <<>> /\ IsWs(text[Len(text)])
    THEN TrimEnd(SubSeq(text, 1, Len(text) - 1)) ELSE text

Trim(text) == TrimEnd(SubSeq(text, SkipWs(text, 1), Len(text)))

\* the loop over the raw names of one @derive(...): currentPos is the
\* 0-based offset of the raw name k
RECURSIVE NameAtPosition(_, _, _, _)
NameAtPosition(rawNames, k, currentPos, position) ==
    IF k > Len(rawNames) THEN NoMatch
    ELSE LET rawName == rawNames[k]
             trimmedName == Trim(rawName)
             nameStartInArgs == IF trimmedName = <<>> THEN 0
                                ELSE SkipWs(rawName, 1) - 1
             nameStart == currentPos + nameStartInArgs
             nameEnd == nameStart + Len(trimmedName)
         IN IF position >= nameStart /\ position <= nameEnd
            THEN Match(trimmedName, nameStart, nameEnd)
            ELSE NameAtPosition(rawNames, k + 1,
                                currentPos + Len(rawName) + 1, position)

RECURSIVE DeriveAtPositionIn(_, _, _, _)
DeriveAtPositionIn(text, matches, k, position) ==
    IF k > Len(matches) THEN NoMatch
    ELSE LET m == matches[k]
             deriveStart == m.at - 1
             deriveEnd == m.close
             found == NameAtPosition(
                          SplitComma(SubSeq(text, m.paren + 1, m.close - 1)),
                          1, m.paren, position)
         IN IF position >= deriveStart /\ position <= deriveEnd /\ found.ok
            THEN found
            ELSE DeriveAtPositionIn(text, matches, k + 1, position)

findDeriveAtPosition(text, position) ==
    DeriveAtPositionIn(text, DeriveMatches(text, 1), 1, position)

\* String.prototype.lastIndexOf over the text before 1-based index i, as a
\* 1-based index, or 0
LastIndexBefore(text, pat, i) ==
    LET hits == {k \in 1..(i - 1) : k + Len(pat) - 1 <= i - 1 /\ StartsAt(text, pat, k)}
    IN IF hits = {} THEN 0 ELSE CHOOSE k \in hits : \A h \in hits : h <= k

StrJsDocEnd == <<"*", "/">>

IsDecoratorStart(c) == IsIdentStart(c) \/ c = "$"
IsDecoratorChar(c) == IsIdentChar(c) \/ c = "$"

\* last 1-based index of the decorator name that starts at i
RECURSIVE DecoratorEnd(_, _)
DecoratorEnd(text, i) ==
    IF i + 1 <= Len(text) /\ IsDecoratorChar(text[i + 1])
    THEN DecoratorEnd(text, i + 1) ELSE i

\* /@([a-zA-Z_$][a-zA-Z0-9_$]*)/g : the first match around the position
\* that is not an @derive inside an open JSDoc comment
RECURSIVE DecoratorFrom(_, _, _)
DecoratorFrom(text, i, position) ==
    IF i + 1 > Len(text) THEN NoMatch
    ELSE IF text[i] = "@" /\ IsDecoratorStart(text[i + 1])
    THEN LET last == DecoratorEnd(text, i + 1)
             name == SubSeq(text, i + 1, last)
             atSign == i - 1
             nameEnd == last
             inJsDoc == /\ LowerText(name) = SubSeq(StrDerive, 2, Len(StrDerive))
                        /\ LastIndexBefore(text, StrJsDoc, i)
                              > LastIndexBefore(text, StrJsDocEnd, i)
         IN IF position >= atSign /\ position <= nameEnd /\ ~inJsDoc
            THEN Match(name, atSign, nameEnd)
            ELSE DecoratorFrom(text, last + 1, position)
    ELSE DecoratorFrom(text, i + 1, position)

findDecoratorAtPosition(text, position) == DecoratorFrom(text, 1, position)

\* the macro names of the last @derive(...) before the position
RECURSIVE NonEmptyNames(_)
NonEmptyNames(rawNames) ==
    IF rawNames = <<>> THEN <<>>
    ELSE (IF Trim(Head(rawNames)) = <<>> THEN <<>> ELSE <<Trim(Head(rawNames))>>)
            \o NonEmptyNames(Tail(rawNames))

findEnclosingDeriveContext(text, position) ==
    LET beforePosition == SubSeq(text, 1, position)
        matches == DeriveMatches(beforePosition, 1)
    IN  IF matches = <<>> THEN <<>>
        ELSE LET m == matches[Len(matches)]
             IN NonEmptyNames(SplitComma(SubSeq(beforePosition, m.paren + 1, m.close - 1)))

\* The manifest of the native plugin: lower-case names of the built-in
\* macros and of the decorators that carry documentation.
ManifestMacros ==
    {<<"d","e","b","u","g">>, <<"c","l","o","n","e">>,
     <<"s","e","r","i","a","l","i","z","e">>}
ManifestDecorators == {<<"s","e","r","d","e">>}

\* parseMacroImportComments: the names of the macros the text imports with
\* /\/\*\*\s*import\s+macro\s*\{([^}]+)\}\s*from\s*["']([^"']+)["']/gi
parseMacroImportComments(text) ==
    LET low == LowerText(text)
        Quotes == {"'", "\""}
        NamesAt(i) ==
            LET j == SkipWs(low, i + 3)
                k == SkipWs(low, j + 6)
                open == SkipWs(low, k + 5)
                close == IndexOfChar(text, "}", open + 1)
                from == SkipWs(low, close + 1)
                quote == SkipWs(low, from + 4)
            IN  IF /\ StartsAt(low, StrJsDoc, i)
                   /\ StartsAt(low, StrImport, j)
                   /\ k > j + 6
                   /\ StartsAt(low, StrMacro, k)
                   /\ StartsAt(text, <<"{">>, open)
                   /\ close > open + 1
                   /\ StartsAt(low, <<"f","r","o","m">>, from)
                   /\ quote <= Len(text) /\ text[quote] \in Quotes
                   /\ quote + 1 <= Len(text) /\ text[quote + 1] \notin Quotes
                   /\ \E q \in (quote + 2)..Len(text) : text[q] \in Quotes
                THEN LET names == NonEmptyNames(SplitComma(SubSeq(text, open + 1, close - 1)))
                     IN {names[n] : n \in 1..Len(names)}
                ELSE {}
    IN UNION {NamesAt(i) : i \in 1..Len(text)}

\* a hover that looks for a decorator before it looks for a macro name
getMacroHoverInfo_DecoratorFirst(text, position) ==
    LET deriveKeyword == findDeriveKeywordAtPosition(text, position)
        deriveMatch == findDeriveAtPosition(text, position)
        decoratorMatch == findDecoratorAtPosition(text, position)
    IN  IF deriveKeyword.ok
        THEN Result("keyword", deriveKeyword.start,
                    deriveKeyword.end - deriveKeyword.start, <<>>,
                    <<"Derive directive">>)
        ELSE IF /\ decoratorMatch.ok
                /\ LowerText(decoratorMatch.name) \in ManifestDecorators
        THEN Result("functionElement", decoratorMatch.start,
                    decoratorMatch.end - decoratorMatch.start, <<>>, <<"docs">>)
        ELSE IF deriveMatch.ok
        THEN Result("functionElement", deriveMatch.start,
                    deriveMatch.end - deriveMatch.start, <<>>, <<"Macro">>)
        ELSE NoResult

\* a hover that knows only the macros of the manifest and of the imports
getMacroHoverInfo_KnownOnly(text, position) ==
    LET deriveKeyword == findDeriveKeywordAtPosition(text, position)
        deriveMatch == findDeriveAtPosition(text, position)
    IN  IF deriveKeyword.ok
        THEN Result("keyword", deriveKeyword.start,
                    deriveKeyword.end - deriveKeyword.start, <<>>,
                    <<"Derive directive">>)
        ELSE IF /\ deriveMatch.ok
                /\ \/ LowerText(deriveMatch.name) \in ManifestMacros
                   \/ deriveMatch.name \in parseMacroImportComments(text)
        THEN Result("functionElement", deriveMatch.start,
                    deriveMatch.end - deriveMatch.start, <<>>, <<"description">>)
        ELSE NoResult

\* getMacroHoverInfo: the kind, the span and the documentation of the hover
\* (the message names the text the branch builds), or NoResult
getMacroHoverInfo(text, position) ==
    LET deriveKeyword == findDeriveKeywordAtPosition(text, position)
        externalMacros == parseMacroImportComments(text)
        deriveMatch == findDeriveAtPosition(text, position)
        decoratorMatch == findDecoratorAtPosition(text, position)
        enclosingMacros == findEnclosingDeriveContext(text, decoratorMatch.start)
    IN  IF deriveKeyword.ok
        THEN Result("keyword", deriveKeyword.start,
                    deriveKeyword.end - deriveKeyword.start, <<>>,
                    <<"Derive directive">>)
        ELSE IF deriveMatch.ok
        THEN Result("functionElement", deriveMatch.start,
                    deriveMatch.end - deriveMatch.start, <<>>,
                    IF LowerText(deriveMatch.name) \in ManifestMacros
                    THEN <<"description">>
                    ELSE IF deriveMatch.name \in externalMacros
                    THEN <<"External macro">>
                    ELSE <<"Macro">>)
        ELSE IF /\ decoratorMatch.ok
                /\ \/ LowerText(decoratorMatch.name) \in ManifestMacros
                   \/ LowerText(decoratorMatch.name) \in ManifestDecorators
                   \/ enclosingMacros # <<>>
        THEN Result("functionElement", decoratorMatch.start,
                    decoratorMatch.end - decoratorMatch.start, <<>>,
                    IF LowerText(decoratorMatch.name) \in ManifestMacros
                    THEN <<"description">>
                    ELSE IF LowerText(decoratorMatch.name) \in ManifestDecorators
                    THEN <<"docs">>
                    ELSE IF \E n \in 1..Len(enclosingMacros) :
                                enclosingMacros[n] \in externalMacros
                    THEN <<"Field decorator from">>
                    ELSE <<"Field decorator">>)
        ELSE NoResult

\* ---------------------------------------------------- navigation queries
\* A second source file of the project; the host's results name it.
FileB == <<"src", "Post", ".ts">>
QueryFiles == SourceFiles \cup {FileB}

\* nativePlugin.getMapper: the mapper of the file, NoMapping for null
getMapper(fileName) ==
    IF fileName \in DOMAIN nativeMapper THEN nativeMapper[fileName] ELSE NoMapping

\* Alignments the Expander reports: the identity, the spec's scenario B, one
\* that starts with generated code, and the one of TextDerive.
Segment(originalStart, originalEnd, expandedStart, expandedEnd) ==
    [originalStart |-> originalStart, originalEnd |-> originalEnd,
     expandedStart |-> expandedStart, expandedEnd |-> expandedEnd]
Region(start, end, sourceMacro) ==
    [start |-> start, end |-> end, sourceMacro |-> sourceMacro]

IdentityAlignment ==
    [present |-> TRUE, segments |-> <<Segment(0, 30, 0, 30)>>,
     generatedRegions |-> <<>>]
ScenarioB ==
    [present |-> TRUE,
     segments |-> <<Segment(0, 10, 0, 10), Segment(10, 15, 25, 30)>>,
     generatedRegions |-> <<Region(10, 25, NameDebug)>>]
LeadingGap ==
    [present |-> TRUE,
     segments |-> <<Segment(0, 12, 3, 15), Segment(12, 20, 27, 35)>>,
     generatedRegions |-> <<Region(0, 3, NameDebug), Region(15, 27, NameDebug)>>]
QueryAlignments == {IdentityAlignment, ScenarioB, LeadingGap, MappingOf(TextDerive)}

\* a hook that treats every file as a source file
UsesOriginal_Never(fileName) == FALSE

\* the branch every query hook starts with
UsesOriginal(fileName) ==
    fileName \in DOMAIN virtualDtsFiles \/ ~shouldProcess(fileName)

\* One request: "ok", a call inside the try block throws ("throw"), or the
\* host call of the catch block throws as well ("rethrow").
QueryScenarios == {"ok", "throw", "rethrow"}

\* The common shape of the position queries: input is what the host returns,
\* mapped what the hook builds from it when the file has a mapper, none the
\* value that stands for no result.
Query(fileName, position, input, sc, mapped, none) ==
    IF sc = "rethrow"
    THEN [path |-> "threw", hostPosition |-> position, input |-> none, result |-> none]
    ELSE IF sc = "throw"
    THEN [path |-> "fallback", hostPosition |-> position, input |-> input,
          result |-> input]
    ELSE IF UsesOriginal(fileName)
    THEN [path |-> "original", hostPosition |-> position, input |-> input,
          result |-> input]
    ELSE IF ~getMapper(fileName).present
    THEN [path |-> "nomapper", hostPosition |-> position, input |-> input,
          result |-> input]
    ELSE [path |-> "mapped",
          hostPosition |-> originalToExpanded(getMapper(fileName), position),
          input |-> input, result |-> mapped]

\* an entry of a list result: a file, a span and the rest of the entry
Entry(fileName, start, length, id) ==
    [fileName |-> fileName, start |-> start, length |-> length, id |-> id]

\* the entry with its span mapped, or as the host returned it
MapEntry_Keep(mapper, e) ==
    LET mapped == mapSpanToOriginal(mapper, e.start, e.length) IN
    IF mapped.ok
    THEN <<[e EXCEPT !.start = mapped.start, !.length = mapped.length]>>
    ELSE <<e>>

\* the entry with its span mapped, or nothing
MapEntry(mapper, e) ==
    LET mapped == mapSpanToOriginal(mapper, e.start, e.length) IN
    IF mapped.ok
    THEN <<[e EXCEPT !.start = mapped.start, !.length = mapped.length]>>
    ELSE <<>>

\* the reduce of the definition hooks: only entries of the queried file
RECURSIVE MapSameFile(_, _)
MapSameFile(fileName, entries) ==
    IF entries = <<>> THEN <<>>
    ELSE LET def == Head(entries) IN
         (IF def.fileName # fileName THEN <<def>>
          ELSE IF ~getMapper(def.fileName).present THEN <<def>>
          ELSE MapEntry(getMapper(def.fileName), def))
            \o MapSameFile(fileName, Tail(entries))

\* the reduce of the reference hooks: entries of every processable file
RECURSIVE MapProcessable(_)
MapProcessable(entries) ==
    IF entries = <<>> THEN <<>>
    ELSE LET ref == Head(entries) IN
         (IF ~shouldProcess(ref.fileName) THEN <<ref>>
          ELSE IF ~getMapper(ref.fileName).present THEN <<ref>>
          ELSE MapEntry(getMapper(ref.fileName), ref))
            \o MapProcessable(Tail(entries))

\* a result with its span mapped, or as the host returned it
MapResultSpan_Keep(mapper, result) ==
    LET mapped == mapSpanToOriginal(mapper, result.start, result.length) IN
    IF mapped.ok
    THEN [result EXCEPT !.start = mapped.start, !.length = mapped.length]
    ELSE result

\* a result with its span mapped, or undefined
MapResultSpan(mapper, result) ==
    LET mapped == mapSpanToOriginal(mapper, result.start, result.length) IN
    IF mapped.ok
    THEN [result EXCEPT !.start = mapped.start, !.length = mapped.length]
    ELSE NoResult

\* Hook getQuickInfoAtPosition; os is the outcome of originalGetScriptSnapshot
getQuickInfoAtPosition(fileName, position, input, sc, os) ==
    LET snapshot == originalGetScriptSnapshot(fileName, os)
        macroHover == IF snapshot = Undefined THEN NoResult
                      ELSE getMacroHoverInfo(snapshot.text, position)
    IN  IF sc = "ok" /\ ~UsesOriginal(fileName) /\ macroHover # NoResult
        THEN [path |-> "macro", hostPosition |-> NoPosition, input |-> NoResult,
              result |-> macroHover]
        ELSE Query(fileName, position, input, sc,
                   IF input = NoResult THEN input
                   ELSE MapResultSpan(getMapper(fileName), input),
                   NoResult)

\* the replacement span of a completion entry, removed when it does not map
MapReplacementSpan(mapper, e) ==
    IF e.start = NoPosition THEN e
    ELSE LET mapped == mapSpanToOriginal(mapper, e.start, e.length) IN
         IF mapped.ok
         THEN [e EXCEPT !.start = mapped.start, !.length = mapped.length]
         ELSE [e EXCEPT !.start = NoPosition, !.length = NoPosition]

\* Hook getCompletionsAtPosition; the span of the result is its
\* optionalReplacementSpan, its definitions are the entries
getCompletionsAtPosition(fileName, position, input, sc) ==
    Query(fileName, position, input, sc,
          IF input = NoResult THEN input
          ELSE LET m == getMapper(fileName)
                   span == MapReplacementSpan(m, input)
               IN [span EXCEPT !.definitions =
                      [i \in 1..Len(input.definitions) |->
                          MapReplacementSpan(m, input.definitions[i])]],
          NoResult)

\* Hook getDefinitionAtPosition
getDefinitionAtPosition(fileName, position, input, sc) ==
    Query(fileName, position, input, sc,
          IF input = NoResult THEN input
          ELSE [input EXCEPT !.definitions = MapSameFile(fileName, input.definitions)],
          NoResult)

\* Hook getDefinitionAndBoundSpan
getDefinitionAndBoundSpan(fileName, position, input, sc) ==
    Query(fileName, position, input, sc,
          IF input = NoResult THEN input
          ELSE LET mappedTextSpan == MapResultSpan(getMapper(fileName), input) IN
               IF mappedTextSpan = NoResult THEN NoResult
               ELSE [mappedTextSpan EXCEPT
                        !.definitions = MapSameFile(fileName, input.definitions)],
          NoResult)

\* Hook getTypeDefinitionAtPosition
getTypeDefinitionAtPosition(fileName, position, input, sc) ==
    Query(fileName, position, input, sc,
          IF input = NoResult THEN input
          ELSE [input EXCEPT !.definitions = MapSameFile(fileName, input.definitions)],
          NoResult)

\* Hook getReferencesAtPosition
getReferencesAtPosition(fileName, position, input, sc) ==
    Query(fileName, position, input, sc,
          IF input = NoResult THEN input
          ELSE [input EXCEPT !.definitions = MapProcessable(input.definitions)],
          NoResult)

\* a referenced symbol: its definition and its references
RefSymbol(definition, references) ==
    [definition |-> definition, references |-> references]

\* map and filter of findReferences
RECURSIVE MapRefSymbols(_)
MapRefSymbols(refSymbols) ==
    IF refSymbols = <<>> THEN <<>>
    ELSE LET refSymbol == Head(refSymbols)
             references == MapProcessable(refSymbol.references)
         IN (IF references = <<>> THEN <<>>
             ELSE <<[refSymbol EXCEPT !.references = references]>>)
               \o MapRefSymbols(Tail(refSymbols))

\* Hook findReferences
findReferences(fileName, position, input, sc) ==
    Query(fileName, position, input, sc,
          IF input = NoResult THEN input
          ELSE [input EXCEPT !.definitions = MapRefSymbols(input.definitions)],
          NoResult)

\* Hook getSignatureHelpItems; the span of the result is its applicableSpan
getSignatureHelpItems(fileName, position, input, sc) ==
    Query(fileName, position, input, sc,
          IF input = NoResult THEN input
          ELSE MapResultSpan(getMapper(fileName), input),
          NoResult)

\* the answer of getRenameInfo for a trigger span in generated code
CannotRename ==
    Result("cannotRename", 0, 0, <<>>, <<"Cannot rename in generated code">>)

\* Hook getRenameInfo; a result of kind "rename" has canRename and the
\* trigger span, one of kind "cannotRename" has not
getRenameInfo(fileName, position, input, sc) ==
    Query(fileName, position, input, sc,
          IF input.kind # "rename" THEN input
          ELSE LET mappedSpan == MapResultSpan(getMapper(fileName), input) IN
               IF mappedSpan = NoResult THEN CannotRename ELSE mappedSpan,
          NoResult)

\* Hook findRenameLocations
findRenameLocations(fileName, position, input, sc) ==
    Query(fileName, position, input, sc,
          IF input = NoResult THEN input
          ELSE [input EXCEPT !.definitions = MapProcessable(input.definitions)],
          NoResult)

\* the highlights of one file
DocHighlight(fileName, highlightSpans) ==
    [fileName |-> fileName, highlightSpans |-> highlightSpans]

RECURSIVE MapHighlightSpans(_, _)
MapHighlightSpans(fileName, spans) ==
    IF spans = <<>> THEN <<>>
    ELSE LET span == Head(spans) IN
         (IF ~shouldProcess(fileName) THEN <<span>>
          ELSE IF ~getMapper(fileName).present THEN <<span>>
          ELSE MapEntry(getMapper(fileName), span))
            \o MapHighlightSpans(fileName, Tail(spans))

RECURSIVE MapDocHighlights(_)
MapDocHighlights(highlights) ==
    IF highlights = <<>> THEN <<>>
    ELSE LET docHighlight == Head(highlights)
             spans == MapHighlightSpans(docHighlight.fileName,
                                        docHighlight.highlightSpans)
         IN (IF spans = <<>> THEN <<>>
             ELSE <<[docHighlight EXCEPT !.highlightSpans = spans]>>)
               \o MapDocHighlights(Tail(highlights))

\* Hook getDocumentHighlights
getDocumentHighlights(fileName, position, input, sc) ==
    Query(fileName, position, input, sc,
          IF input = NoResult THEN input
          ELSE [input EXCEPT !.definitions = MapDocHighlights(input.definitions)],
          NoResult)

\* Hook getImplementationAtPosition
getImplementationAtPosition(fileName, position, input, sc) ==
    Query(fileName, position, input, sc,
          IF input = NoResult THEN input
          ELSE [input EXCEPT !.definitions = MapProcessable(input.definitions)],
          NoResult)

\* Hook getCodeFixesAtPosition; range is <<start, end>>
getCodeFixesAtPosition(fileName, range, input, sc) ==
    LET r == Query(fileName, range[1], input, sc, input, NoResult) IN
    [r EXCEPT !.hostPosition =
        IF r.path = "mapped"
        THEN <<originalToExpanded(getMapper(fileName), range[1]),
               originalToExpanded(getMapper(fileName), range[2])>>
        ELSE range]

\* an item of the navigation tree
NavigationItem(spans, nameSpan, childItems) ==
    [spans |-> spans, nameSpan |-> nameSpan, childItems |-> childItems]

\* a span as it is when it does not map
MapSpanOrKeep(mapper, span) ==
    LET mapped == mapSpanToOriginal(mapper, span.start, span.length) IN
    IF mapped.ok THEN Span(mapped.start, mapped.length) ELSE span

RECURSIVE mapNavigationItem(_, _)
mapNavigationItem(navMapper, item) ==
    [spans |-> [i \in 1..Len(item.spans) |-> MapSpanOrKeep(navMapper, item.spans[i])],
     nameSpan |-> IF item.nameSpan.ok THEN MapSpanOrKeep(navMapper, item.nameSpan)
                  ELSE None,
     childItems |-> [i \in 1..Len(item.childItems) |->
                        mapNavigationItem(navMapper, item.childItems[i])]]

\* Hook getNavigationTree; the tree is the one definition of the result
getNavigationTree(fileName, input, sc) ==
    Query(fileName, NoPosition, input, sc,
          [input EXCEPT !.definitions =
              <<mapNavigationItem(getMapper(fileName), input.definitions[1])>>],
          NoResult)

\* an outlining span
OutliningSpan(textSpan, hintSpan) == [textSpan |-> textSpan, hintSpan |-> hintSpan]

MapOutliningSpan(mapper, span) ==
    LET mappedTextSpan == mapSpanToOriginal(mapper, span.textSpan.start,
                                            span.textSpan.length)
        mappedHintSpan == mapSpanToOriginal(mapper, span.hintSpan.start,
                                            span.hintSpan.length)
    IN  IF ~mappedTextSpan.ok \/ ~mappedHintSpan.ok THEN span
        ELSE OutliningSpan(Span(mappedTextSpan.start, mappedTextSpan.length),
                           Span(mappedHintSpan.start, mappedHintSpan.length))

\* Hook getOutliningSpans
getOutliningSpans(fileName, input, sc) ==
    Query(fileName, NoPosition, input, sc,
          [input EXCEPT !.definitions =
              [i \in 1..Len(input.definitions) |->
                  MapOutliningSpan(getMapper(fileName), input.definitions[i])]],
          NoResult)

\* an inlay hint
Hint(position, id) == [position |-> position, id |-> id]

RECURSIVE MapHints(_, _)
MapHints(mapper, hints) ==
    IF hints = <<>> THEN <<>>
    ELSE LET hint == Head(hints)
             originalPos == expandedToOriginal(mapper, hint.position)
         IN (IF originalPos = NoPosition THEN <<>>
             ELSE <<[hint EXCEPT !.position = originalPos]>>)
               \o MapHints(mapper, Tail(hints))

\* Hook provideInlayHints; span is the requested span
provideInlayHints(fileName, span, input, sc) ==
    LET r == Query(fileName, span.start, input, sc,
                   IF input = NoResult THEN input
                   ELSE [input EXCEPT !.definitions =
                            MapHints(getMapper(fileName), input.definitions)],
                   NoResult)
    IN  IF r.path # "mapped" THEN [r EXCEPT !.hostPosition = span]
        ELSE IF isEmpty(getMapper(fileName))
        THEN [path |-> "empty", hostPosition |-> span, input |-> input,
              result |-> input]
        ELSE [r EXCEPT !.hostPosition =
                 mapSpanToExpanded(getMapper(fileName), span.start, span.length)]

\* nativePlugin.mapDiagnostics for a file: the positions of the diagnostics,
\* mapped where the file's mapper maps them
NativeMapDiagnosticsOf(fileName, diags) ==
    [i \in 1..Len(diags) |->
        LET mapper == getMapper(fileName)
            mapped == mapSpanToOriginal(mapper, diags[i].start, diags[i].length)
        IN  IF mapper.present /\ diags[i].start # -1 /\ mapped.ok
            THEN [start |-> mapped.start, length |-> mapped.length]
            ELSE [start |-> diags[i].start, length |-> diags[i].length]]

\* Hook getSyntacticDiagnostics
getSyntacticDiagnostics(fileName, diags, sc) ==
    IF sc = "rethrow"
    THEN [path |-> "threw", hostPosition |-> NoPosition, input |-> <<>>,
          result |-> <<>>]
    ELSE IF sc = "throw"
    THEN [path |-> "fallback", hostPosition |-> NoPosition, input |-> diags,
          result |-> diags]
    ELSE IF UsesOriginal(fileName)
    THEN [path |-> "original", hostPosition |-> NoPosition, input |-> diags,
          result |-> diags]
    ELSE [path |-> "mapped", hostPosition |-> NoPosition, input |-> diags,
          result |-> applyMappedDiagnostics(
                         diags, NativeMapDiagnosticsOf(fileName, diags))]

\* ------------------------------------------------- the host's answers
\* all sequences over S of length at most n
RECURSIVE SeqsUpTo(_, _)
SeqsUpTo(S, n) ==
    IF n = 0 THEN {<<>>}
    ELSE SeqsUpTo(S, n - 1) \cup
         {Append(l, x) : l \in {y \in SeqsUpTo(S, n - 1) : Len(y) = n - 1}, x \in S}

\* the entries numbered in the host's order
WithIds(list) == [i \in 1..Len(list) |-> [list[i] EXCEPT !.id = i]]

\* Spans of the expanded text the host reports, as <<start, length>>: for
\* ScenarioB one that runs from a segment into generated code, one inside
\* generated code, one that runs from one segment to the next, and one
\* inside the second segment.
SpanChoices == {<<8, 4>>, <<12, 2>>, <<8, 19>>, <<27, 2>>}
EntrySpans == {<<8, 4>>, <<12, 2>>, <<27, 2>>}

EntryChoices ==
    {Entry(FileA, sp[1], sp[2], 0) : sp \in EntrySpans}
        \cup {Entry(FileB, 27, 2, 0), Entry(FileX, 27, 2, 0)}
EntryLists == {WithIds(l) : l \in SeqsUpTo(EntryChoices, MaxEntries)}

ListResult(entries) == Result("list", 0, 0, entries, <<>>)

SingleInputs ==
    {NoResult} \cup {Result("result", sp[1], sp[2], <<>>, <<>>) : sp \in SpanChoices}
ListInputs == {NoResult} \cup {ListResult(l) : l \in EntryLists}
BoundSpanInputs ==
    {NoResult} \cup {Result("result", sp[1], sp[2], l, <<>>) :
                        sp \in SpanChoices, l \in EntryLists}
RenameInputs ==
    {Result("rename", sp[1], sp[2], <<>>, <<>>) : sp \in SpanChoices}
        \cup {Result("cannotRename", 0, 0, <<>>, <<"You cannot rename this element.">>)}

\* completion entries: with a replacement span or without
ReplacementChoices ==
    {Entry(NoFile, sp[1], sp[2], 0) : sp \in {<<12, 2>>, <<27, 2>>}}
        \cup {Entry(NoFile, NoPosition, NoPosition, 0)}
CompletionInputs ==
    {NoResult} \cup
    {Result("result", e.start, e.length, WithIds(l), <<>>) :
        e \in ReplacementChoices, l \in SeqsUpTo(ReplacementChoices, MaxEntries)}

\* referenced symbols: the second symbol of a result is a fixed one
RefSymbolChoices ==
    {RefSymbol(Entry(FileA, sp[1], sp[2], 0), l) :
        sp \in {<<12, 2>>, <<27, 2>>}, l \in EntryLists}
RefSymbolInputs ==
    {NoResult} \cup {ListResult(<<s>>) : s \in RefSymbolChoices}
        \cup {ListResult(<<s, RefSymbol(Entry(FileB, 27, 2, 0),
                                        <<Entry(FileB, 27, 2, 1)>>)>>) :
                 s \in RefSymbolChoices}

\* document highlights: the second file of a result is a fixed one
HighlightSpanLists ==
    {WithIds(l) : l \in SeqsUpTo({Entry(NoFile, sp[1], sp[2], 0) : sp \in EntrySpans},
                                 MaxEntries)}
DocHighlightChoices ==
    {DocHighlight(f, l) : f \in {FileA, FileX}, l \in HighlightSpanLists \ {<<>>}}
DocHighlightInputs ==
    {NoResult} \cup {ListResult(<<h>>) : h \in DocHighlightChoices}
        \cup {ListResult(<<h, DocHighlight(FileB, <<Entry(NoFile, 12, 2, 1)>>)>>) :
                 h \in DocHighlightChoices}

\* navigation trees: a root with at most one child
NavigationSpans == {<<>>} \cup {<<Span(sp[1], sp[2])>> : sp \in EntrySpans}
NameSpans == {None, Span(12, 2), Span(27, 2)}
NavigationLeaves ==
    {NavigationItem(spans, nameSpan, <<>>) :
        spans \in NavigationSpans, nameSpan \in NameSpans}
NavigationTreeInputs ==
    {Result("tree", 0, 0, <<NavigationItem(spans, nameSpan, childItems)>>, <<>>) :
        spans \in NavigationSpans, nameSpan \in NameSpans,
        childItems \in {<<>>} \cup {<<leaf>> : leaf \in NavigationLeaves}}

OutliningChoices ==
    {OutliningSpan(Span(t[1], t[2]), Span(h[1], h[2])) :
        t \in EntrySpans, h \in {<<8, 4>>, <<27, 2>>}}
OutliningInputs ==
    {ListResult(l) : l \in SeqsUpTo(OutliningChoices, MaxEntries)}

HintInputs ==
    {NoResult} \cup
    {ListResult(WithIds(l)) :
        l \in SeqsUpTo({Hint(pos, 0) : pos \in {8, 12, 27}}, MaxEntries)}

CodeFixInputs == {Result("fixes", 0, 0, <<>>, <<>>)}

\* the arguments of the caller, in original coordinates
QueryPositions == {8, 10}
HoverPositions == {0, 8, 22}
QueryRanges == {<<8, 10>>, <<10, 12>>}
QuerySpans == {Span(8, 4), Span(0, 12)}

\* ----------------------------------------------------- the query requests
\* a query returns: the hooks keep no state of their own
Idle == ret = NoReturn /\ stack = <<>>

QueryReturn(hook, fileName, position, r) ==
    /\ ret' = [hook |-> hook, file |-> fileName, path |-> r.path,
               position |-> position, hostPosition |-> r.hostPosition,
               input |-> r.input, result |-> r.result]
    /\ UNCHANGED <<hostVersion, hostText, virtualDtsFiles, snapshotCache,
                   processingFiles, nativeMapper, stack, nextId, invokedAt,
                   lastTypes, served>>

\* ------------------------------------------------------- the hover requests
\* Texts of a source file with macro syntax to hover over.
\* /**import macro{Kit}from'p'*/@derive(Debug, Kit ,Foo)A{@serde x;@kit y}
HoverImport ==
    <<"/","*","*","i","m","p","o","r","t"," ","m","a","c","r","o","{","K","i",
      "t","}","f","r","o","m","'","p","'","*","/","@","d","e","r","i","v","e",
      "(","D","e","b","u","g",","," ","K","i","t"," ",",","F","o","o",")","A",
      "{","@","s","e","r","d","e"," ","x",";","@","k","i","t"," ","y","}">>
\* @Derive ( Debug )x@foo
HoverSpaced ==
    <<"@","D","e","r","i","v","e"," ","("," ","D","e","b","u","g"," ",")","x",
      "@","f","o","o">>
\* class A{@serde x;@foo y}
HoverPlain ==
    <<"c","l","a","s","s"," ","A","{","@","s","e","r","d","e"," ","x",";","@",
      "f","o","o"," ","y","}">>
\* /** @derive(Debug) */@derive(Clone,,Hash)
HoverJsDoc ==
    <<"/","*","*"," ","@","d","e","r","i","v","e","(","D","e","b","u","g",")",
      " ","*","/","@","d","e","r","i","v","e","(","C","l","o","n","e",",",",",
      "H","a","s","h",")">>
\* @derive(@serde)x
HoverNested ==
    <<"@","d","e","r","i","v","e","(","@","s","e","r","d","e",")","x">>
HoverTexts == {HoverImport, HoverSpaced, HoverPlain, HoverJsDoc, HoverNested}

\* ------------------------------------ relocation of generated diagnostics
\* "@derive(Debug,Clone)A{}"
TextPair == <<"@","d","e","r","i","v","e","(","D","e","b","u","g",",",
              "C","l","o","n","e",")","A","{","}">>
\* "/** @derive(Debug) */A{}"
TextJsDoc == <<"/","*","*"," ","@","d","e","r","i","v","e","(","D","e","b","u","g",
               ")"," ","*","/","A","{","}">>
RelocationTexts == {TextPlain, TextDerive, TextTwo, TextPair, TextJsDoc}

NameClone == <<"C","l","o","n","e">>
NameDeriveDebug == <<"d","e","r","i","v","e",":",":","D","e","b","u","g">>

\* What the Expander attributes a generated region to: a macro, a macro by
\* its path, the generic name, the empty name, or nothing.
Attributions == {NameDebug, NameClone, NameDeriveDebug, NameMacro, <<>>, NullName}

\* the alignment of a text with GenLen generated characters spliced in at
\* the offset at, attributed to sourceMacro
AttributedMapping(text, at, sourceMacro) ==
    [present |-> TRUE,
     segments |-> IF at = 0
                  THEN <<Segment(0, Len(text), GenLen, Len(text) + GenLen)>>
                  ELSE <<Segment(0, at, 0, at),
                         Segment(at, Len(text), at + GenLen, Len(text) + GenLen)>>,
     generatedRegions |-> <<Region(at, at + GenLen, sourceMacro)>>]

\* generated code goes before a closing brace or, as the imports it needs,
\* to the start of the file
AttributedMappings(text) ==
    {AttributedMapping(text, at, sourceMacro) :
        at \in {0} \cup {k - 1 : k \in {i \in 1..Len(text) : text[i] = "}"}},
        sourceMacro \in Attributions}

\* the host's diagnostics that start in a generated region of the mapper
GeneratedDiagnostics(mapper) ==
    {Diag(start, 1, <<"m">>, category, 2322, "ts") :
        start \in {p \in 0..(mapper.segments[Len(mapper.segments)].expandedEnd) :
                     isInGenerated(mapper, p)},
        category \in {"error", "warning"}}

RECURSIVE GeneratedLists(_, _)
GeneratedLists(mapper, n) ==
    IF n = 0 THEN {<<>>}
    ELSE GeneratedLists(mapper, n - 1) \cup
         {Append(l, d) : l \in {x \in GeneratedLists(mapper, n - 1) : Len(x) = n - 1},
                         d \in GeneratedDiagnostics(mapper)}

\* The conversion of the collected diagnostics in getSemanticDiagnostics:
\* the mapper is the one of the file, the text the host's, and the result of
\* processFile has the mapper's source mapping or, after a failure, none.
ConvertGeneratedDiagnostics(name) ==
    /\ Idle
    /\ \E hasMapping \in BOOLEAN,
          generated \in GeneratedLists(nativeMapper[name], MaxDiags) \ {<<>>} :
           LET mapper == nativeMapper[name]
               text == hostText[name]
               result == IF hasMapping
                         THEN [code |-> text, types |-> <<>>, sourceMapping |-> mapper]
                         ELSE IdentityResult(text)
           IN  ret' = [hook |-> "generatedDiagsAsMacro", file |-> name,
                       path |-> IF hasMapping THEN "mapping" ELSE "fallback",
                       sourceMapping |-> result.sourceMapping,
                       input |-> generated,
                       result |-> GeneratedDiagsAsMacro(mapper, result, text,
                                                        generated)]
    /\ UNCHANGED <<hostVersion, hostText, virtualDtsFiles, snapshotCache,
                   processingFiles, nativeMapper, stack, nextId, invokedAt,
                   lastTypes, served>>

\* ------------------------------------------------- the PositionMapper calls
\* Alignments of two segments: generated code of length lead before the
\* first segment and of length gap between the two.
TwoSegments(lead, first, gap, second) ==
    [present |-> TRUE,
     segments |-> <<Segment(0, first, lead, lead + first),
                    Segment(first, first + second,
                            lead + first + gap, lead + first + gap + second)>>,
     generatedRegions |->
        (IF lead > 0 THEN <<Region(0, lead, NameDebug)>> ELSE <<>>)
           \o (IF gap > 0 THEN <<Region(lead + first, lead + first + gap, NameDebug)>>
               ELSE <<>>)]

MapperAlignments ==
    QueryAlignments \cup
    {TwoSegments(lead, first, gap, second) :
        lead \in 0..1, first \in 1..3, gap \in 0..2, second \in 1..3}

\* the lengths of the original and of the expanded text of an alignment
OriginalLength(mapping) == mapping.segments[Len(mapping.segments)].originalEnd
ExpandedLength(mapping) == mapping.segments[Len(mapping.segments)].expandedEnd

\* a call of the mapper of a file returns
MapperReturn(call, fileName, input, result) ==
    /\ ret' = [hook |-> call, file |-> fileName, path |-> "mapper",
               input |-> input, result |-> result]
    /\ UNCHANGED <<hostVersion, hostText, virtualDtsFiles, snapshotCache,
                   processingFiles, nativeMapper, stack, nextId, invokedAt,
                   lastTypes, served>>

\* --------------------------------------------------------------- the caller
\* the caller of the request that completed last takes its result
Consume ==
    /\ ret # NoReturn
    /\ ret' = NoReturn
    /\ UNCHANGED <<hostVersion, hostText, virtualDtsFiles, snapshotCache,
                   processingFiles, nativeMapper, stack, nextId, invokedAt,
                   lastTypes, served>>

\* ------------------------------------------------------------- host edits
\* Between requests the user edits a file: the host serves the new text
\* under a new version.
HostEdit(name, text) ==
    /\ ret = NoReturn
    /\ stack = <<>>
    /\ name \in SourceFiles
    /\ text # hostText[name]
    /\ hostVersion[name] < MaxVersion
    /\ hostText' = [hostText EXCEPT ![name] = text]
    /\ hostVersion' = [hostVersion EXCEPT ![name] = @ + 1]
    /\ UNCHANGED <<virtualDtsFiles, snapshotCache, processingFiles,
                   nativeMapper, stack, nextId, ret, invokedAt, lastTypes,
                   served>>

\* ---------------------------------------------------------- specification
Init ==
    /\ hostVersion = [f \in HostFiles |-> 1]
    /\ hostText \in {t \in [HostFiles -> Texts] : t[FileX] = TextPlain}
    /\ virtualDtsFiles = <<>>
    /\ snapshotCache = <<>>
    /\ processingFiles = {}
    /\ nativeMapper = [f \in SourceFiles |-> NoMapping]
    /\ stack = <<>>
    /\ nextId = 1
    /\ ret = NoReturn
    /\ invokedAt = [f \in SourceFiles |-> 0]
    /\ lastTypes = [f \in SourceFiles |-> <<>>]
    /\ served = [f \in SourceFiles |-> [version |-> 0, snapshot |-> Undefined]]

Next ==
    \/ \E name \in SourceFiles, text \in Texts : HostEdit(name, text)
    \/ \E name \in RequestNames : GetScriptSnapshot(name)
    \/ \E name \in RequestNames : GetScriptSnapshotBegin(name)
    \/ GetScriptSnapshotEnd
    \/ \E name \in RequestNames, diags \in DiagLists(MaxDiags) :
            GetSemanticDiagnostics(name, diags)
    \/ \E name \in RequestNames, diags \in DiagLists(MaxDiags) :
            GetSemanticDiagnosticsBegin(name, diags)
    \/ GetSemanticDiagnosticsEnd
    \/ Consume

Spec == Init /\ [][Next]_vars

\* The plugin between expansions: the native plugin holds an alignment for
\* each source file it has expanded, and the virtual declaration file of
\* FileA is registered or not.  The requests are the queries, and the
\* snapshot and diagnostics requests for the files that are never expanded.
NeverExpanded == RequestNames \ SourceFiles

QueryInit ==
    /\ hostVersion = [f \in HostFiles |-> 1]
    /\ hostText \in {t \in [HostFiles -> {TextPlain, TextDerive}] :
                        \A f \in SourceFiles : t[f] = TextDerive}
    /\ virtualDtsFiles \in
          {<<>>} \cup {MapSet(<<>>, VirtualName(f), TypesSnapshot(f, TypesText)) :
                          f \in SourceFiles}
    /\ snapshotCache = <<>>
    /\ processingFiles = {}
    /\ nativeMapper \in
          {m \in [QueryFiles -> QueryAlignments \cup {NoMapping}] :
              m[FileB] = ScenarioB}
    /\ stack = <<>>
    /\ nextId = 1
    /\ ret = NoReturn
    /\ invokedAt = [f \in SourceFiles |-> 0]
    /\ lastTypes = [f \in SourceFiles |-> <<>>]
    /\ served = [f \in SourceFiles |-> [version |-> 0, snapshot |-> Undefined]]

QueryNext ==
    \/ \E name \in NeverExpanded : GetScriptSnapshot(name)
    \/ \E name \in NeverExpanded, diags \in DiagLists(MaxDiags) :
            GetSemanticDiagnostics(name, diags)
    \* getSyntacticDiagnostics
    \/ Idle /\ \E name \in RequestNames, diags \in DiagLists(MaxDiags), sc \in QueryScenarios :
           QueryReturn("getSyntacticDiagnostics", name, NoPosition,
                       getSyntacticDiagnostics(name, diags, sc))
    \* getQuickInfoAtPosition
    \/ Idle /\ \E name \in RequestNames, position \in HoverPositions, input \in SingleInputs, sc \in QueryScenarios,
           os \in {"ok", "undefined"} :
           QueryReturn("getQuickInfoAtPosition", name, position,
                       getQuickInfoAtPosition(name, position, input, sc, os))
    \* getCompletionsAtPosition
    \/ Idle /\ \E name \in RequestNames, position \in QueryPositions, input \in CompletionInputs, sc \in QueryScenarios :
           QueryReturn("getCompletionsAtPosition", name, position,
                       getCompletionsAtPosition(name, position, input, sc))
    \* getDefinitionAtPosition
    \/ Idle /\ \E name \in RequestNames, position \in QueryPositions, input \in ListInputs, sc \in QueryScenarios :
           QueryReturn("getDefinitionAtPosition", name, position,
                       getDefinitionAtPosition(name, position, input, sc))
    \* getDefinitionAndBoundSpan
    \/ Idle /\ \E name \in RequestNames, position \in QueryPositions, input \in BoundSpanInputs, sc \in QueryScenarios :
           QueryReturn("getDefinitionAndBoundSpan", name, position,
                       getDefinitionAndBoundSpan(name, position, input, sc))
    \* getTypeDefinitionAtPosition
    \/ Idle /\ \E name \in RequestNames, position \in QueryPositions, input \in ListInputs, sc \in QueryScenarios :
           QueryReturn("getTypeDefinitionAtPosition", name, position,
                       getTypeDefinitionAtPosition(name, position, input, sc))
    \* getReferencesAtPosition
    \/ Idle /\ \E name \in RequestNames, position \in QueryPositions, input \in ListInputs, sc \in QueryScenarios :
           QueryReturn("getReferencesAtPosition", name, position,
                       getReferencesAtPosition(name, position, input, sc))
    \* findReferences
    \/ Idle /\ \E name \in RequestNames, position \in QueryPositions, input \in RefSymbolInputs, sc \in QueryScenarios :
           QueryReturn("findReferences", name, position,
                       findReferences(name, position, input, sc))
    \* getSignatureHelpItems
    \/ Idle /\ \E name \in RequestNames, position \in QueryPositions, input \in SingleInputs, sc \in QueryScenarios :
           QueryReturn("getSignatureHelpItems", name, position,
                       getSignatureHelpItems(name, position, input, sc))
    \* getRenameInfo
    \/ Idle /\ \E name \in RequestNames, position \in QueryPositions, input \in RenameInputs, sc \in QueryScenarios :
           QueryReturn("getRenameInfo", name, position,
                       getRenameInfo(name, position, input, sc))
    \* findRenameLocations
    \/ Idle /\ \E name \in RequestNames, position \in QueryPositions, input \in ListInputs, sc \in QueryScenarios :
           QueryReturn("findRenameLocations", name, position,
                       findRenameLocations(name, position, input, sc))
    \* getDocumentHighlights
    \/ Idle /\ \E name \in RequestNames, position \in QueryPositions, input \in DocHighlightInputs, sc \in QueryScenarios :
           QueryReturn("getDocumentHighlights", name, position,
                       getDocumentHighlights(name, position, input, sc))
    \* getImplementationAtPosition
    \/ Idle /\ \E name \in RequestNames, position \in QueryPositions, input \in ListInputs, sc \in QueryScenarios :
           QueryReturn("getImplementationAtPosition", name, position,
                       getImplementationAtPosition(name, position, input, sc))
    \* getCodeFixesAtPosition
    \/ Idle /\ \E name \in RequestNames, range \in QueryRanges, input \in CodeFixInputs, sc \in QueryScenarios :
           QueryReturn("getCodeFixesAtPosition", name, range,
                       getCodeFixesAtPosition(name, range, input, sc))
    \* getNavigationTree
    \/ Idle /\ \E name \in RequestNames, input \in NavigationTreeInputs, sc \in QueryScenarios :
           QueryReturn("getNavigationTree", name, NoPosition,
                       getNavigationTree(name, input, sc))
    \* getOutliningSpans
    \/ Idle /\ \E name \in RequestNames, input \in OutliningInputs, sc \in QueryScenarios :
           QueryReturn("getOutliningSpans", name, NoPosition,
                       getOutliningSpans(name, input, sc))
    \* provideInlayHints
    \/ Idle /\ \E name \in RequestNames, span \in QuerySpans, input \in HintInputs, sc \in QueryScenarios :
           QueryReturn("provideInlayHints", name, span,
                       provideInlayHints(name, span, input, sc))
    \/ Consume

QuerySpec == QueryInit /\ [][QueryNext]_vars

\* The conversion of generated-code diagnostics as a function of its inputs:
\* the text of the file and the alignment the native plugin holds for it.
RelocationInit ==
    /\ hostVersion = [f \in HostFiles |-> 1]
    /\ hostText \in {t \in [HostFiles -> RelocationTexts] : t[FileX] = TextPlain}
    /\ virtualDtsFiles = <<>>
    /\ snapshotCache = <<>>
    /\ processingFiles = {}
    /\ nativeMapper \in
          UNION {[SourceFiles -> AttributedMappings(hostText[f])] : f \in SourceFiles}
    /\ stack = <<>>
    /\ nextId = 1
    /\ ret = NoReturn
    /\ invokedAt = [f \in SourceFiles |-> 0]
    /\ lastTypes = [f \in SourceFiles |-> <<>>]
    /\ served = [f \in SourceFiles |-> [version |-> 0, snapshot |-> Undefined]]

RelocationNext ==
    \/ \E name \in SourceFiles : ConvertGeneratedDiagnostics(name)
    \/ Consume

RelocationSpec == RelocationInit /\ [][RelocationNext]_vars

\* The plugin between expansions, the host serving one of the hover texts
\* for the source file; the requests are the hovers at every position.
HoverInit ==
    /\ hostVersion = [f \in HostFiles |-> 1]
    /\ hostText \in {t \in [HostFiles -> HoverTexts \cup {TextPlain}] :
                        /\ t[FileX] = TextPlain
                        /\ \A f \in SourceFiles : t[f] \in HoverTexts}
    /\ virtualDtsFiles = MapSet(<<>>, VirtualName(FileA), TypesSnapshot(FileA, TypesText))
    /\ snapshotCache = <<>>
    /\ processingFiles = {}
    /\ nativeMapper \in
          {m \in [QueryFiles -> {NoMapping, ScenarioB}] :
              m[FileB] = ScenarioB}
    /\ stack = <<>>
    /\ nextId = 1
    /\ ret = NoReturn
    /\ invokedAt = [f \in SourceFiles |-> 0]
    /\ lastTypes = [f \in SourceFiles |-> <<>>]
    /\ served = [f \in SourceFiles |-> [version |-> 0, snapshot |-> Undefined]]

HoverNext ==
    \/ Idle /\ \E name \in RequestNames, sc \in QueryScenarios :
          \E position \in 0..Len(hostText[FileA]), input \in SingleInputs :
             QueryReturn("getQuickInfoAtPosition", name, position,
                         getQuickInfoAtPosition(name, position, input, sc, "ok"))
    \/ Consume

HoverSpec == HoverInit /\ [][HoverNext]_vars

\* The mapper of a file as a function of the alignment the Expander reported.
MapperInit ==
    /\ hostVersion = [f \in HostFiles |-> 1]
    /\ hostText = [f \in HostFiles |-> IF f \in SourceFiles THEN TextDerive
                                       ELSE TextPlain]
    /\ virtualDtsFiles = <<>>
    /\ snapshotCache = <<>>
    /\ processingFiles = {}
    /\ nativeMapper \in [SourceFiles -> MapperAlignments]
    /\ stack = <<>>
    /\ nextId = 1
    /\ ret = NoReturn
    /\ invokedAt = [f \in SourceFiles |-> 0]
    /\ lastTypes = [f \in SourceFiles |-> <<>>]
    /\ served = [f \in SourceFiles |-> [version |-> 0, snapshot |-> Undefined]]

MapperNext ==
    \/ Idle /\ \E name \in SourceFiles :
          \E pos \in 0..(OriginalLength(getMapper(name)) - 1) :
             MapperReturn("originalToExpanded", name, pos,
                          originalToExpanded(getMapper(name), pos))
    \/ Idle /\ \E name \in SourceFiles :
          \E pos \in 0..(ExpandedLength(getMapper(name)) - 1) :
             MapperReturn("expandedToOriginal", name, pos,
                          expandedToOriginal(getMapper(name), pos))
    \/ Idle /\ \E name \in SourceFiles :
          \E start \in 0..(ExpandedLength(getMapper(name)) - 1) :
             \E length \in 0..(ExpandedLength(getMapper(name)) - 1 - start) :
                MapperReturn("mapSpanToOriginal", name, Span(start, length),
                             mapSpanToOriginal(getMapper(name), start, length))
    \/ Idle /\ \E name \in SourceFiles :
          \E start \in 0..(OriginalLength(getMapper(name)) - 1) :
             \E length \in 0..(OriginalLength(getMapper(name)) - 1 - start) :
                MapperReturn("mapSpanToExpanded", name, Span(start, length),
                             mapSpanToExpanded(getMapper(name), start, length))
    \/ Consume

MapperSpec == MapperInit /\ [][MapperNext]_vars


\* ================================================================ claims
GssReturned == ret.hook = "getScriptSnapshot"
GsdReturned == ret.hook = "getSemanticDiagnostics"

\* an Expander call for file f starts in this step
ExpanderInvoked(f) ==
    /\ Len(stack') = Len(stack) + 1
    /\ stack'[Len(stack')].file = f

\* C1: once a top-level getScriptSnapshot request has returned or thrown, on
\* any path, its file is not in processingFiles; and while no request is in
\* progress processingFiles is empty.
C1_NoFileLeftProcessing ==
    /\ (GssReturned /\ ret.depth = 0) => ret.file \notin processingFiles
    /\ stack = <<>> => processingFiles = {}

\* a top-level request whose Expander call failed has returned
C1_Witness == GssReturned /\ ret.depth = 0 /\ ret.path = "failed"

\* C2: a getScriptSnapshot request for a file that is in processingFiles
\* returns what the host's getScriptSnapshot returns, starts no Expander call
\* and leaves snapshotCache and processingFiles as they are.
C2_ReentrantRequestChangesNothing ==
    [][(/\ ret = NoReturn
        /\ ret'.hook = "getScriptSnapshot"
        /\ ret'.depth = Len(stack)
        /\ ret'.file \in processingFiles)
       => (/\ ret'.snap \in {HostSnapshot(ret'.file), Undefined}
           /\ ret'.path \notin {"threw"}
           /\ UNCHANGED <<snapshotCache, processingFiles, stack, invokedAt>>)]_vars

\* C3: two getScriptSnapshot requests for the same file that consult the
\* snapshot cache under the same version return the same snapshot object.
C3_SameVersionSameSnapshot ==
    [][(/\ ret = NoReturn
        /\ ret'.hook = "getScriptSnapshot"
        /\ ret'.path \in {"cachehit", "expanded", "unchanged", "failed"}
        /\ served[ret'.file].version = hostVersion[ret'.file])
       => ret'.snap = served[ret'.file].snapshot]_vars

\* C4 (as claimed): no Expander call starts for a file at a version at which
\* an Expander call was started before, whichever hook starts it.
C4_ExpanderOncePerVersion ==
    [][\A f \in SourceFiles :
          ExpanderInvoked(f) => invokedAt[f] # hostVersion[f]]_vars

\* C4 (amended): once getScriptSnapshot has stored its result for the file's
\* current version in snapshotCache, no getScriptSnapshot request starts an
\* Expander call for that file; a request that is made then and consults
\* the cache returns the stored snapshot.
C4_NoExpansionOnceCached ==
    [][\A f \in SourceFiles :
          (f \in DOMAIN snapshotCache /\ snapshotCache[f].version = hostVersion[f])
          => /\ ~(ExpanderInvoked(f) /\ stack'[Len(stack')].hook = "getScriptSnapshot")
             /\ (ret = NoReturn /\ ret'.hook = "getScriptSnapshot" /\ ret'.file = f
                 /\ ret'.depth = Len(stack)
                 /\ ret'.path \notin {"reentrant", "fallback", "threw", "nosnapshot"})
                => (ret'.path = "cachehit" /\ ret'.snap = snapshotCache[f].snapshot)]_vars

\* a request was answered from the cache at the version of the last Expander call
C4_Witness ==
    /\ GssReturned /\ ret.path = "cachehit"
    /\ invokedAt[ret.file] = hostVersion[ret.file]

\* C5 (as claimed): a getScriptSnapshot request that finds a cache entry of
\* another version than the host's has called the Expander and has replaced
\* the entry by one of the host's version that holds the returned snapshot.
FreshEntry(f) ==
    /\ ret.path \in {"expanded", "unchanged", "failed"}
    /\ f \in DOMAIN snapshotCache
    /\ snapshotCache[f] = [version |-> hostVersion[f], snapshot |-> ret.snap]
    /\ ret.snap.origin = "expanded"
       => (ret.snap.id = nextId - 1 /\ ret.snap.text = ExpandedCode(hostText[f]))
    /\ ret.snap.origin # "expanded" => ret.snap = HostSnapshot(f)

C6_ExpanderFailureFallsBack ==
    (GssReturned /\ ret.path = "failed")
    => /\ ret.snap = HostSnapshot(ret.file)
       /\ ret.snap.text = hostText[ret.file]
       /\ ret.file \in DOMAIN snapshotCache
       /\ snapshotCache[ret.file] =
              [version |-> hostVersion[ret.file], snapshot |-> HostSnapshot(ret.file)]
       /\ VirtualName(ret.file) \notin DOMAIN virtualDtsFiles

\* the Expander failed for a file that an earlier call had expanded
C6_Witness ==
    /\ GssReturned /\ ret.path = "failed"
    /\ nativeMapper[ret.file].present

\* C7: a getScriptSnapshot request that finds no macro directives returns
\* the host's snapshot and leaves neither a snapshotCache entry nor a virtual
\* .macroforge.d.ts of the file.
C7_NoDirectivesEvicts ==
    (GssReturned /\ ret.path = "nomacro")
    => /\ ret.snap = HostSnapshot(ret.file)
       /\ ret.file \notin DOMAIN snapshotCache
       /\ VirtualName(ret.file) \notin DOMAIN virtualDtsFiles

\* C8: no getScriptSnapshot request starts an Expander call for a file while
\* an Expander call for that file is in progress.
C8_NoNestedExpansionOfSameFile ==
    \A i \in 1..Len(stack), j \in 1..Len(stack) :
        (i < j /\ stack[j].hook = "getScriptSnapshot") => stack[j].file # stack[i].file

\* getSemanticDiagnostics worked with a non-empty mapper and did not take
\* the catch block
GsdMappedReturn ==
    /\ GsdReturned
    /\ ret.path \in {"nosnapshot", "blank", "done", "failed"}
    /\ ~isEmpty(ret.mapper)

\* C9: no host diagnostic whose span fails mapSpanToOriginal is returned as
\* it is, with its start and length in expanded coordinates.
C9_NoExpandedCoordinatesReturned ==
    GsdMappedReturn
    => \A i \in 1..Len(ret.input) :
          (/\ ret.input[i].start # -1
           /\ ~mapSpanToOriginal(ret.mapper, ret.input[i].start, ret.input[i].length).ok)
          => \A k \in 1..Len(ret.diags) : ret.diags[k] # ret.input[i]

\* C10: the result holds exactly one relocated diagnostic for each host
\* diagnostic that starts in a generated region.
StartsInGenerated(mapper, diags) ==
    {i \in 1..Len(diags) : diags[i].start # -1 /\ isInGenerated(mapper, diags[i].start)}
RelocatedIn(diags) == {k \in 1..Len(diags) : diags[k].code = RelocatedCode}

C10_GeneratedDiagnosticsKept ==
    GsdMappedReturn
    => Cardinality(RelocatedIn(ret.diags))
         = Cardinality(StartsInGenerated(ret.mapper, ret.input))

\* the request that completed last went through the mapper of its file
MappedReturn(hooks) == ret.hook \in hooks /\ ret.path = "mapped"

\* what the host answered has a span, and mapSpanToOriginal fails for it
HostSpanFails ==
    /\ ret.input.kind \in {"result", "rename"}
    /\ ~mapSpanToOriginal(getMapper(ret.file), ret.input.start, ret.input.length).ok

SingleResultHooks ==
    {"getQuickInfoAtPosition", "getDefinitionAndBoundSpan",
     "getSignatureHelpItems", "getRenameInfo"}

\* C11: when the span of the host's result of a single-result query
\* (getQuickInfoAtPosition outside macro syntax, getDefinitionAndBoundSpan,
\* getSignatureHelpItems, getRenameInfo) fails mapSpanToOriginal, the hook
\* reports the result as unavailable: undefined, or for getRenameInfo a
\* result without canRename that carries the error message; it returns no
\* result that holds a span.
C11_SingleResultUnavailable ==
    (MappedReturn(SingleResultHooks) /\ HostSpanFails)
    => /\ ret.result = IF ret.hook = "getRenameInfo" THEN CannotRename ELSE NoResult
       /\ ret.result.kind \notin {"result", "rename"}

\* a rename request whose trigger span runs from one segment to the next
\* was answered with canRename false
C11_Witness ==
    /\ MappedReturn({"getRenameInfo"})
    /\ HostSpanFails
    /\ ret.input.start = 8 /\ ret.input.length = 19
    /\ ret.result = CannotRename

\* What the claim expects of one entry of the host's list: whether its span
\* is to be mapped, whether it maps, and the entry with the mapped span.
Expect(e, subject, maps, image) ==
    [id |-> e.id, subject |-> subject, maps |-> maps, image |-> image]

ExpectEntries(entries, sameFileOnly) ==
    [k \in 1..Len(entries) |->
        LET e == entries[k]
            m == getMapper(e.fileName)
            sp == mapSpanToOriginal(m, e.start, e.length)
        IN  Expect(e,
                   /\ m.present
                   /\ IF sameFileOnly THEN e.fileName = ret.file
                      ELSE shouldProcess(e.fileName),
                   sp.ok,
                   [e EXCEPT !.start = sp.start, !.length = sp.length])]

ExpectSpans(fileName, spans) ==
    [k \in 1..Len(spans) |->
        LET e == spans[k]
            m == getMapper(fileName)
            sp == mapSpanToOriginal(m, e.start, e.length)
        IN  Expect(e, m.present /\ shouldProcess(fileName), sp.ok,
                   [e EXCEPT !.start = sp.start, !.length = sp.length])]

ExpectHints(hints) ==
    [k \in 1..Len(hints) |->
        LET h == hints[k]
            pos == expandedToOriginal(getMapper(ret.file), h.position)
        IN  Expect(h, TRUE, pos # NoPosition, [h EXCEPT !.position = pos])]

\* out keeps the host's order, omits the entries that do not map and holds
\* the others with their mapped span
Kept(expected, out) ==
    /\ \A i \in 1..(Len(out) - 1) : out[i].id < out[i + 1].id
    /\ \A i \in 1..Len(out) : \E k \in 1..Len(expected) : expected[k].id = out[i].id
    /\ \A k \in 1..Len(expected) :
          expected[k].subject =>
             IF expected[k].maps
             THEN \E i \in 1..Len(out) : out[i] = expected[k].image
             ELSE \A i \in 1..Len(out) : out[i].id # expected[k].id

HighlightsKept(in, out) ==
    /\ \A i \in 1..Len(out) :
          \E k \in 1..Len(in) :
             /\ in[k].fileName = out[i].fileName
             /\ Kept(ExpectSpans(in[k].fileName, in[k].highlightSpans),
                     out[i].highlightSpans)
    /\ \A k \in 1..Len(in) :
          (\A i \in 1..Len(out) : out[i].fileName # in[k].fileName)
             => LET expected == ExpectSpans(in[k].fileName, in[k].highlightSpans)
                IN  \A j \in 1..Len(expected) :
                       expected[j].subject /\ ~expected[j].maps

EntryListHooks ==
    {"getReferencesAtPosition", "findRenameLocations", "getImplementationAtPosition"}

SpanFails(mapper, span) == ~mapSpanToOriginal(mapper, span.start, span.length).ok

\* an item of the returned tree holds a span of the host's tree that does
\* not map, with the start and length the host gave it
RECURSIVE KeepsFailingSpan(_, _, _)
KeepsFailingSpan(mapper, in, out) ==
    \/ \E i \in 1..Len(in.spans) :
          SpanFails(mapper, in.spans[i]) /\ out.spans[i] = in.spans[i]
    \/ in.nameSpan.ok /\ SpanFails(mapper, in.nameSpan) /\ out.nameSpan = in.nameSpan
    \/ \E i \in 1..Len(in.childItems) :
          KeepsFailingSpan(mapper, in.childItems[i], out.childItems[i])

\* C13: getNavigationTree and getOutliningSpans return every span in
\* original coordinates: a span of the host's result that fails to map is
\* never returned with its expanded start and length.
C13_NoFailingSpanReturned ==
    /\ MappedReturn({"getNavigationTree"})
          => ~KeepsFailingSpan(getMapper(ret.file), ret.input.definitions[1],
                               ret.result.definitions[1])
    /\ MappedReturn({"getOutliningSpans"})
          => \A i \in 1..Len(ret.input.definitions) :
                LET in == ret.input.definitions[i]
                    out == ret.result.definitions[i]
                    m == getMapper(ret.file)
                IN  /\ SpanFails(m, in.textSpan) => out.textSpan # in.textSpan
                    /\ SpanFails(m, in.hintSpan) => out.hintSpan # in.hintSpan

\* out is the entry e of the host with its span in original coordinates
IsTranslation(e, out) ==
    /\ out.fileName = e.fileName
    /\ out.id = e.id
    /\ IF getMapper(e.fileName).present
       THEN LET mapped == mapSpanToOriginal(getMapper(e.fileName), e.start, e.length)
            IN  mapped.ok /\ out.start = mapped.start /\ out.length = mapped.length
       ELSE out = e

Translated(in, out) ==
    \A i \in 1..Len(out) : \E k \in 1..Len(in) : IsTranslation(in[k], out[i])

DefinitionHooks ==
    {"getDefinitionAtPosition", "getTypeDefinitionAtPosition",
     "getDefinitionAndBoundSpan"}

\* C14: every span in the result of a definition or reference query
\* (getDefinitionAtPosition, getTypeDefinitionAtPosition, the definitions of
\* getDefinitionAndBoundSpan, the symbol definitions and references of
\* findReferences) that lies in a macro-expanded file is in original
\* coordinates, in the queried file and in every other file.
C14_EverySpanTranslatedBack ==
    /\ (MappedReturn(DefinitionHooks) /\ ret.result # NoResult)
          => Translated(ret.input.definitions, ret.result.definitions)
    /\ (MappedReturn({"findReferences"}) /\ ret.result # NoResult)
          => \A i \in 1..Len(ret.result.definitions) :
                \E k \in 1..Len(ret.input.definitions) :
                   /\ IsTranslation(ret.input.definitions[k].definition,
                                    ret.result.definitions[i].definition)
                   /\ Translated(ret.input.definitions[k].references,
                                 ret.result.definitions[i].references)

\* a conversion of generated-code diagnostics completed last
Converted == ret.hook = "generatedDiagsAsMacro"

\* the attribution of the generated code at pos: the mapper's, else the
\* one of the result's generated region, else none
AttributedMacro(pos) ==
    LET fromMapper == generatedBy(getMapper(ret.file), pos)
        fromRegion == generatedBy(ret.sourceMapping, pos)
    IN  IF fromMapper \notin {NullName, <<>>} THEN fromMapper
        ELSE IF fromRegion \notin {NullName, <<>>} THEN fromRegion
        ELSE NullName

\* the simple name of the attributed macro: the part after the last "::",
\* macro when the attribution is missing
RECURSIVE AfterLastColons(_)
AfterLastColons(name) ==
    IF \E i \in 1..(Len(name) - 1) : name[i] = ":" /\ name[i + 1] = ":"
    THEN LET i == CHOOSE k \in 1..(Len(name) - 1) : name[k] = ":" /\ name[k + 1] = ":"
         IN  AfterLastColons(SubSeq(name, i + 2, Len(name)))
    ELSE name

SimpleAttribution(pos) ==
    IF AttributedMacro(pos) = NullName THEN <<"m","a","c","r","o">>
    ELSE AfterLastColons(AttributedMacro(pos))

\* C15: every diagnostic relocated from generated code has code 9998 and
\* source 'macroforge-generated', keeps the category of the original, and
\* its message is the original message prefixed with '[M] ', M the simple
\* name of the attributed macro (Debug for derive::Debug, macro when the
\* attribution is missing).
C15_RelocatedDiagnosticTagged ==
    Converted =>
       /\ Len(ret.result) = Len(ret.input)
       /\ \A i \in 1..Len(ret.input) :
             /\ ret.result[i].code = 9998
             /\ ret.result[i].source = "macroforge-generated"
             /\ ret.result[i].category = ret.input[i].category
             /\ ret.result[i].messageText =
                   <<"[">> \o SimpleAttribution(ret.input[i].start) \o <<"]", " ">>
                      \o ret.input[i].messageText

\* the position the fallback chain gives inside the invocation dec for the
\* simple macro name: the macro named so, else the only macro when the name
\* is missing or generic, else the whole invocation
ChainPosition(dec, simple) ==
    LET named == {i \in 1..Len(dec.macros) : dec.macros[i].name = simple} IN
    IF named # {}
    THEN LET m == dec.macros[CHOOSE i \in named : \A j \in named : i <= j]
         IN  [start |-> m.start, length |-> m.length]
    ELSE IF simple \in {<<"m","a","c","r","o">>, <<>>} /\ Len(dec.macros) = 1
    THEN [start |-> dec.macros[1].start, length |-> dec.macros[1].length]
    ELSE [start |-> dec.fullStart, length |-> dec.fullLength]

\* the simple name the relocation works with
RelocationName(pos) ==
    LET fromMapper == generatedBy(getMapper(ret.file), pos)
        fromRegion == generatedBy(ret.sourceMapping, pos)
    IN  AfterLastColons(IF fromMapper \notin {NullName, <<>>} THEN fromMapper
                        ELSE IF fromRegion # NullName THEN fromRegion
                        ELSE <<"m","a","c","r","o">>)

\* the position of the relocated diagnostic follows the chain
FollowsChain(in, out) ==
    LET decorators == DeriveDecorators(hostText[ret.file], 1)
        position == [start |-> out.start, length |-> out.length]
    IN  IF decorators = <<>> THEN position = [start |-> 0, length |-> 7]
        ELSE \E k \in 1..Len(decorators) :
                position = ChainPosition(decorators[k], RelocationName(in.start))

\* the position of the relocated diagnostic is the first "@derive(" of the
\* text, or the default when the text has none
AtFirstDerive(out) ==
    LET text == hostText[ret.file]
        opens == {i \in 1..Len(text) :
                     /\ StartsAt(text, StrDerive, i)
                     /\ StartsAt(text, <<"(">>, SkipWs(text, i + 7))}
    IN  IF opens = {} THEN out.start = 0 /\ out.length = 7
        ELSE LET i == CHOOSE k \in opens : \A j \in opens : k <= j
             IN  out.start = i - 1 /\ out.length = SkipWs(text, i + 7) - i + 1

MapperCall(call) == ret.hook = call

\* C17: round trip: for every offset pos of the original text,
\* expandedToOriginal(originalToExpanded(pos)) = pos, also when pos is the
\* boundary between two segments.
C17_RoundTrip ==
    MapperCall("originalToExpanded")
    => expandedToOriginal(getMapper(ret.file), ret.result) = ret.input

\* the boundary 10 of scenario B went to 25, the start of the second segment
C17_Witness ==
    /\ MapperCall("originalToExpanded")
    /\ getMapper(ret.file) = ScenarioB
    /\ ret.input = 10
    /\ ret.result = 25

\* C18: expandedToOriginal returns none for every offset inside a generated
\* region, and for every offset inside the expanded range of a segment the
\* original offset at the same distance from the segment's start; in
\* scenario B offset 18 has no original and offset 27 maps to 12.
C18_PartialOnGenerated ==
    MapperCall("expandedToOriginal")
    => LET m == getMapper(ret.file) IN
       /\ isInGenerated(m, ret.input) => ret.result = NoPosition
       /\ \A i \in 1..Len(m.segments) :
             (m.segments[i].expandedStart <= ret.input
                 /\ ret.input < m.segments[i].expandedEnd)
             => ret.result = m.segments[i].originalStart
                                + (ret.input - m.segments[i].expandedStart)
       /\ (m = ScenarioB /\ ret.input = 18) => ret.result = NoPosition
       /\ (m = ScenarioB /\ ret.input = 27) => ret.result = 12

\* offset 18 of scenario B, in the generated region, had no original
C18_Witness ==
    /\ MapperCall("expandedToOriginal")
    /\ getMapper(ret.file) = ScenarioB
    /\ ret.input = 18
    /\ ret.result = NoPosition

\* a generated region lies between the two positions
RegionBetween(mapping, from, to) ==
    \E i \in 1..Len(mapping.generatedRegions) :
       /\ from <= mapping.generatedRegions[i].start
       /\ mapping.generatedRegions[i].end <= to
       /\ mapping.generatedRegions[i].start < mapping.generatedRegions[i].end

\* C19: mapSpanToOriginal returns none for every span whose two endpoints
\* lie in different segments separated by a generated region, also when
\* each endpoint has an original; no span it returns skips generated text.
C19_CrossingSpanRejected ==
    MapperCall("mapSpanToOriginal")
    => LET m == getMapper(ret.file)
           start == ret.input.start
           end == ret.input.start + ret.input.length
       IN  /\ (/\ expandedToOriginal(m, start) # NoPosition
               /\ expandedToOriginal(m, end) # NoPosition
               /\ RegionBetween(m, start, end))
              => ret.result = None
           /\ ret.result.ok => ~RegionBetween(m, start, end)

\* the span from 8 to 27 of scenario B, whose endpoints map to 8 and 12,
\* was rejected
C19_Witness ==
    /\ MapperCall("mapSpanToOriginal")
    /\ getMapper(ret.file) = ScenarioB
    /\ ret.input = Span(8, 19)
    /\ expandedToOriginal(ScenarioB, 8) = 8
    /\ expandedToOriginal(ScenarioB, 27) = 12
    /\ ret.result = None

\* the file is excluded by shouldProcess and is no registered virtual file
ExcludedFile(fileName) ==
    ~shouldProcess(fileName) /\ fileName \notin DOMAIN virtualDtsFiles

\* the request that completed last returned what the host returns for the
\* arguments of the caller (a request whose host call threw has thrown)
HostAnswer ==
    /\ getScriptVersion(ret.file) = originalGetScriptVersion(ret.file)
    /\ fileExists(ret.file) = (ret.file \in HostFiles)
    /\ CASE ret.hook = "getScriptSnapshot" ->
               ret.path # "threw" => ret.snap \in {HostSnapshot(ret.file), Undefined}
         [] ret.hook = "getSemanticDiagnostics" ->
               ret.path # "threw" => ret.diags = ret.input
         [] OTHER ->
               ret.hostPosition = ret.position /\ ret.result = ret.input

\* C20: for a file excluded by shouldProcess that is not a registered
\* virtual declaration file, every hook returns the host's own result for
\* the unmodified arguments of the caller, and neither invokes the Expander
\* nor changes the snapshot cache, the virtual-file registry or the
\* ProcessingSet.
C20_ExcludedFilePassesThrough ==
    [][(ret'.hook # "none" /\ ExcludedFile(ret'.file))
          => /\ HostAnswer'
             /\ UNCHANGED <<snapshotCache, virtualDtsFiles, processingFiles,
                            stack, invokedAt>>]_vars

\* a hover on the macro name of a derive comment in a file of node_modules
\* was answered by the host alone
C20_Witness ==
    /\ ret.hook = "getQuickInfoAtPosition"
    /\ ret.file = FileX
    /\ ExcludedFile(FileX)
    /\ hostText[FileX] = TextDerive
    /\ getMacroHoverInfo(hostText[FileX], ret.position) # NoResult
    /\ ret.input.kind = "result"
    /\ ret.result = ret.input
    /\ ret.hostPosition = ret.position

\* ---- C21 ----
\* the @derive(...) constructs of the text: the 1-based indexes of their
\* "(" and ")"
DeriveLists(text) ==
    {l \in {<<SkipWs(text, i + Len(StrDerive)),
              IndexOfChar(text, ")", SkipWs(text, i + Len(StrDerive)) + 1)>> :
                i \in {k \in 1..(Len(text) - Len(StrDerive)) :
                          LowerText(SubSeq(text, k, k + Len(StrDerive) - 1))
                             = StrDerive}} :
        text[l[1]] = "(" /\ l[2] > l[1] + 1}

\* those around the 0-based position p on a character of a macro name
DeriveListsAround(text, p) ==
    {l \in DeriveLists(text) :
        /\ l[1] < p + 1 /\ p + 1 < l[2]
        /\ ~IsWs(text[p + 1]) /\ text[p + 1] # ","}

OnMacroName(text, p) == DeriveListsAround(text, p) # {}

\* the macro name around p: the characters between the commas around p,
\* without the whitespace at either end
MacroNameSpan(text, p) ==
    LET l == CHOOSE x \in DeriveListsAround(text, p) : TRUE
        first == CHOOSE b \in (l[1] + 1)..(p + 1) :
                    /\ \A k \in b..(p + 1) : text[k] # ","
                    /\ ~IsWs(text[b])
                    /\ \A c \in (l[1] + 1)..(b - 1) :
                          (\A k \in c..(p + 1) : text[k] # ",") => IsWs(text[c])
        last == CHOOSE e \in (p + 1)..(l[2] - 1) :
                    /\ \A k \in (p + 1)..e : text[k] # ","
                    /\ ~IsWs(text[e])
                    /\ \A c \in (e + 1)..(l[2] - 1) :
                          (\A k \in (p + 1)..c : text[k] # ",") => IsWs(text[c])
    IN Span(first - 1, last - first + 1)

\* a hover request for a processable file that completed without an exception
HoverAnswered ==
    /\ ret.hook = "getQuickInfoAtPosition"
    /\ ret.path \notin {"fallback", "threw"}
    /\ ~UsesOriginal(ret.file)

\* C21: in a processable file, a hover on a macro name inside @derive(...)
\* returns a functionElement hover whose span is exactly that name in the
\* original text, for a built-in, an imported and an unknown macro alike,
\* and neither the host's quick info nor the mapper is called.
C21_MacroNameHover ==
    (HoverAnswered /\ OnMacroName(hostText[ret.file], ret.position)) =>
        /\ ret.path = "macro"
        /\ ret.result.kind = "functionElement"
        /\ Span(ret.result.start, ret.result.length)
              = MacroNameSpan(hostText[ret.file], ret.position)
        /\ ret.result.message \in {<<"description">>, <<"External macro">>, <<"Macro">>}
        /\ ret.input = NoResult
        /\ ret.hostPosition = NoPosition

C21_Witness ==
    /\ HoverAnswered
    /\ OnMacroName(hostText[ret.file], ret.position)
    /\ ret.result.message = <<"External macro">>
    /\ ret.result.length = 3
    /\ getMapper(ret.file).present

\* ---- C22 ----
\* p touches the "@derive" of an @derive(...)
OnDeriveKeyword(text, p) ==
    \E i \in 1..(Len(text) - Len(StrDerive)) :
        /\ LowerText(SubSeq(text, i, i + Len(StrDerive) - 1)) = StrDerive
        /\ StartsAt(text, <<"(">>, SkipWs(text, i + Len(StrDerive)))
        /\ i - 1 <= p /\ p <= i - 1 + Len(StrDerive)

\* p touches a macro name of an @derive(...): a character of the name or
\* the position right after it
TouchesMacroName(text, p) ==
    \E l \in DeriveLists(text) : \E b \in (l[1] + 1)..(l[2] - 1) :
        /\ ~IsWs(text[b]) /\ text[b] # ","
        /\ b - 1 <= p
        /\ \E e \in b..(l[2] - 1) :
              /\ p <= e
              /\ \A k \in b..e : text[k] # ","
              /\ ~IsWs(text[e])

\* p touches a decorator @name that is in the manifest or comes after an
\* @derive(...)
TouchesDecorator(text, p) ==
    \E i \in 1..(Len(text) - 1) : \E e \in (i + 1)..Len(text) :
        /\ text[i] = "@"
        /\ IsDecoratorStart(text[i + 1])
        /\ \A k \in (i + 1)..e : IsDecoratorChar(text[k])
        /\ i - 1 <= p /\ p <= e
        /\ \/ LowerText(SubSeq(text, i + 1, e)) \in ManifestMacros \cup ManifestDecorators
           \/ \E l \in DeriveLists(text) : l[2] < i

OnMacroSyntax(text, p) ==
    OnDeriveKeyword(text, p) \/ TouchesMacroName(text, p) \/ TouchesDecorator(text, p)

\* the answer of the host with its span in original coordinates, undefined
\* when the host has none or the span does not map
HostAnswerMapped ==
    LET mapped == mapSpanToOriginal(getMapper(ret.file), ret.input.start,
                                    ret.input.length)
    IN  IF ret.input = NoResult \/ ~mapped.ok THEN NoResult
        ELSE [ret.input EXCEPT !.start = mapped.start, !.length = mapped.length]

\* C22: a hover at a position that is not on macro syntax fabricates no
\* macro hover: the host is asked at the position in expanded coordinates and
\* its answer is returned with the span mapped back, undefined when the host
\* has none.
C22_NoHoverOffMacroSyntax ==
    (HoverAnswered /\ ~OnMacroSyntax(hostText[ret.file], ret.position)) =>
        /\ ret.path \in {"nomapper", "mapped"}
        /\ ret.path = "nomapper" =>
              ret.hostPosition = ret.position /\ ret.result = ret.input
        /\ ret.path = "mapped" =>
              /\ ret.hostPosition
                    = originalToExpanded(getMapper(ret.file), ret.position)
              /\ ret.result = HostAnswerMapped

\* ---- C23 ----
\* the 1-based indexes of the "@derive" followed by "(" that has the 0-based
\* position p on one of its 7 characters
KeywordsAt(text, p) ==
    {i \in 1..(Len(text) - Len(StrDerive)) :
        /\ LowerText(SubSeq(text, i, i + Len(StrDerive) - 1)) = StrDerive
        /\ StartsAt(text, <<"(">>, SkipWs(text, i + Len(StrDerive)))
        /\ i - 1 <= p /\ p < i - 1 + 7}

\* C23: getMacroHoverInfo looks for the @derive keyword first, then for a
\* macro name inside @derive(...), then for a field decorator, and the first
\* match wins; on one of the 7 characters of an "@derive" followed by "(" the
\* hover has kind keyword and spans exactly these 7 characters.
C23_HoverPrecedence ==
    HoverAnswered =>
        LET text == hostText[ret.file]
            p == ret.position
            deriveMatch == findDeriveAtPosition(text, p)
            decoratorMatch == findDecoratorAtPosition(text, p)
        IN  IF KeywordsAt(text, p) # {}
            THEN /\ ret.path = "macro"
                 /\ ret.result.kind = "keyword"
                 /\ ret.result.start + 1 \in KeywordsAt(text, p)
                 /\ ret.result.length = 7
            ELSE IF deriveMatch.ok
            THEN /\ ret.path = "macro"
                 /\ ret.result.kind = "functionElement"
                 /\ ret.result.start = deriveMatch.start
                 /\ ret.result.length = deriveMatch.end - deriveMatch.start
                 /\ ret.result.message
                       \in {<<"description">>, <<"External macro">>, <<"Macro">>}
            ELSE ret.path = "macro" =>
                 /\ decoratorMatch.ok
                 /\ ret.result.kind = "functionElement"
                 /\ ret.result.start = decoratorMatch.start
                 /\ ret.result.length = decoratorMatch.end - decoratorMatch.start

\* the hover on the last character of "@Derive" in "@Derive ( Debug )", where
\* the decorator pattern matches as well
C23_Witness ==
    /\ HoverAnswered
    /\ hostText[ret.file] = HoverSpaced
    /\ ret.position = 6
    /\ findDecoratorAtPosition(HoverSpaced, 6).ok
    /\ ret.result.kind = "keyword"
    /\ ret.result.start = 0 /\ ret.result.length = 7

\* ---- C24 ----
\* the insertion point of the generated region around the expanded offset
\* pos: the original end of the latest segment that ends at or before the
\* region's start, 0 when there is none
InsertionPointOf(mapping, pos) ==
    LET region == mapping.generatedRegions[
                      CHOOSE i \in RegionAt(mapping, pos) : TRUE]
        before == {i \in 1..Len(mapping.segments) :
                      mapping.segments[i].expandedEnd <= region.start}
    IN  IF before = {} THEN 0
        ELSE mapping.segments[CHOOSE i \in before : \A j \in before : j <= i].originalEnd

\* the invocations of the text the relocated diagnostic out lies in
ChosenInvocations(out) ==
    LET decorators == DeriveDecorators(hostText[ret.file], 1) IN
    {decorators[k] : k \in {i \in 1..Len(decorators) :
        /\ decorators[i].fullStart <= out.start
        /\ out.start < decorators[i].fullStart + decorators[i].fullLength}}

\* C24: the invocation chosen for a relocated diagnostic is the @derive(...)
\* nearest to, and no later than, the insertion point of the generated
\* region: no invocation that lies after the insertion point is chosen, and
\* none that starts before it lies nearer.
C24_NearestInvocationChosen ==
    (Converted /\ ret.sourceMapping.present) =>
        \A i \in 1..Len(ret.input) :
            LET insertion == InsertionPointOf(ret.sourceMapping, ret.input[i].start)
                decorators == DeriveDecorators(hostText[ret.file], 1)
            IN  \A chosen \in ChosenInvocations(ret.result[i]) :
                   /\ chosen.fullStart <= insertion
                   /\ \A k \in 1..Len(decorators) :
                         decorators[k].fullStart < insertion
                            => decorators[k].fullStart <= chosen.fullStart

\* ---- C25 ----
\* C25: macro expansion is never attempted for a file whose text has no macro
\* directive: no Expander call is in progress for such a text, and
\* getScriptSnapshot returns the host's own snapshot of such a file (what the
\* host returned, when the host has no snapshot for an excluded file).
C25_NoExpansionWithoutDirective ==
    /\ \A i \in 1..Len(stack) : DirectiveTable[stack[i].text]
    /\ (/\ ret.hook = "getScriptSnapshot"
        /\ ret.file \in HostFiles
        /\ ~DirectiveTable[hostText[ret.file]]
        /\ ret.path \notin {"threw", "fallback", "nosnapshot"})
          => /\ ret.snap \in {HostSnapshot(ret.file), Undefined}
             /\ ret.path = "nomacro" => ret.snap = HostSnapshot(ret.file)

\* ---- C26 ----
\* the host diagnostic d maps cleanly with the mapper
MapsCleanly(mapper, d) ==
    /\ d.start # -1 /\ d.length # -1
    /\ mapSpanToOriginal(mapper, d.start, d.length).ok

\* the hook collects the host diagnostic d for relocation
CollectedForRelocation(mapper, d) ==
    /\ d.start # -1 /\ d.length # -1
    /\ ~mapSpanToOriginal(mapper, d.start, d.length).ok
    /\ isInGenerated(mapper, d.start)

\* the place in the result of the host diagnostic i: the diagnostics the hook
\* does not collect keep their order at the head of the result
PlaceInResult(mapper, diags, i) ==
    Cardinality({j \in 1..i : ~CollectedForRelocation(mapper, diags[j])})

\* C26: a host diagnostic whose span maps cleanly is returned with only its
\* start and length replaced by the mapped values: code, category, message
\* and source are the host's, it is neither relocated nor re-tagged.
C26_CleanDiagnosticTranslated ==
    GsdMappedReturn =>
        \A i \in 1..Len(ret.input) :
            MapsCleanly(ret.mapper, ret.input[i]) =>
                LET d == ret.input[i]
                    mapped == mapSpanToOriginal(ret.mapper, d.start, d.length)
                    k == PlaceInResult(ret.mapper, ret.input, i)
                IN  /\ k <= Len(ret.diags)
                    /\ ret.diags[k] = Diag(mapped.start, mapped.length, d.messageText,
                                           d.category, d.code, d.source)

\* a diagnostic behind generated code was moved back, after one that was
\* collected for relocation
C26_Witness ==
    /\ GsdMappedReturn
    /\ Len(ret.input) = 2
    /\ CollectedForRelocation(ret.mapper, ret.input[1])
    /\ MapsCleanly(ret.mapper, ret.input[2])
    /\ ret.input[2].start = 25
    /\ ret.diags[1].start = 22 /\ ret.diags[1].code = 2322

\* ---- C27 ----
\* the virtual declaration file of source file f is registered
Registered(f) == VirtualName(f) \in DOMAIN virtualDtsFiles

\* what the hooks answer for the registered virtual file of f
VirtualFileServed(f) ==
    LET v == VirtualName(f) IN
    /\ fileExists(v)
    /\ v \in getScriptFileNames
    /\ getScriptVersion(v) = hostVersion[f]
    /\ \A sc \in HostScenarios :
          LET r == GssOutcome(v, sc[1], sc[2], sc[3]) IN
          /\ r.path = "virtual"
          /\ r.snap = TypesSnapshot(f, lastTypes[f])
          /\ r.processing = processingFiles
    /\ \A sc \in GsdScenarios, diags \in DiagLists(MaxDiags) :
          GsdOutcome(v, diags, sc[1], sc[2], sc[3], sc[4]).diags = <<>>

\* C27: for every source file F, F + ".macroforge.d.ts" is in the
\* virtual-file registry exactly when the last Expander call for F that
\* ended succeeded and returned generated types; while it is registered,
\* fileExists reports true for it, getScriptFileNames lists it,
\* getScriptSnapshot returns the stored declarations, getScriptVersion
\* returns F's current version and getSemanticDiagnostics returns an empty
\* list for it.
C27_VirtualFileRegistry ==
    \A f \in SourceFiles :
        /\ Registered(f) <=> lastTypes[f] # <<>>
        /\ Registered(f) => VirtualFileServed(f)

\* the virtual file is registered, the host has edited the source file since,
\* and a getScriptSnapshot request for the virtual file has returned
C27_Witness ==
    /\ Registered(FileA)
    /\ hostVersion[FileA] > invokedAt[FileA]
    /\ ret.hook = "getScriptSnapshot"
    /\ ret.file = VirtualName(FileA)
    /\ ret.path = "virtual"
    /\ ret.snap = TypesSnapshot(FileA, TypesText)

\* ---- C28 ----
\* C28: while the Expander call of a getScriptSnapshot request for file F is
\* in progress, F stays in processingFiles: no nested request removes the
\* key, a nested request that fails with an exception included.
C28_KeyHeldUntilOuterExit ==
    \A i \in 1..Len(stack) :
        stack[i].hook = "getScriptSnapshot" => stack[i].file \in processingFiles

\* ---- C29 ----
\* the request that returned took the catch block of its hook, and the host
\* call of the catch block returned
CaughtAndAnswered == ret.hook # "none" /\ ret.path = "fallback"

\* the Expander call of the request that returned threw
ExpansionFailed == ret.hook # "none" /\ ret.path = "failed"

\* the request returned what the host's implementation returns for the
\* caller's arguments
HostResultReturned ==
    CASE ret.hook = "getScriptSnapshot" ->
             ret.snap \in {HostSnapshot(ret.file), Undefined}
      [] ret.hook = "getSemanticDiagnostics" -> ret.diags = ret.input
      [] OTHER -> FALSE

\* a hover request in which a step of the try block throws returns the
\* host's answer for the caller's position, and throws only with the host
HoverFallsBack ==
    \A name \in RequestNames, position \in QueryPositions, input \in SingleInputs,
       os \in {"ok", "undefined"} :
        /\ getQuickInfoAtPosition(name, position, input, "throw", os)
              = [path |-> "fallback", hostPosition |-> position,
                 input |-> input, result |-> input]
        /\ getQuickInfoAtPosition(name, position, input, "rethrow", os).path = "threw"

\* C29 as stated: when a step inside a hook throws (the expansion included)
\* the hook returns the result of the host's original implementation.
C29_AnyFailureReturnsHostResult ==
    (CaughtAndAnswered \/ ExpansionFailed) => HostResultReturned

\* C29 (amended): when an exception reaches the catch block of a hook, the
\* hook returns the result of the host's original implementation for the
\* caller's arguments, and it throws only if that call throws.  A failure of
\* the Expander does not reach the hook: getScriptSnapshot returns the host's
\* snapshot, getSemanticDiagnostics returns the host's diagnostics as its
\* mapper maps and relocates them, without diagnostics of the Expander.
C29_CaughtFailureReturnsHostResult ==
    /\ CaughtAndAnswered => HostResultReturned
    /\ ret.path = "threw" => ret.snap = Undefined /\ ret.diags = <<>>
    /\ (ExpansionFailed /\ GssReturned) => ret.snap = HostSnapshot(ret.file)
    /\ (ExpansionFailed /\ GsdReturned) =>
          ret.diags = MappedDiagnostics(ret.mapper, ret.input)
                        \o GeneratedDiagsAsMacro(
                              ret.mapper, IdentityResult(hostText[ret.file]),
                              hostText[ret.file],
                              GeneratedCodeDiagnostics(ret.mapper, ret.input))
    /\ HoverFallsBack

\* getSemanticDiagnostics took its catch block for a file whose mapper would
\* have moved a diagnostic, and returned the host's list
C29_Witness ==
    /\ GsdReturned
    /\ ret.path = "fallback"
    /\ ~isEmpty(ret.mapper)
    /\ ret.input # <<>>
    /\ MappedDiagnostics(ret.mapper, ret.input) # ret.input
    /\ ret.diags = ret.input

\* ---- C30 ----
\* getSemanticDiagnostics returned after its call of processFile
GsdProcessed == GsdReturned /\ ret.path \in {"done", "failed"}

\* the diagnostics of the result between the mapped host diagnostics and the
\* relocated generated-code diagnostics
BuiltFromExpander ==
    LET mapped == MappedDiagnostics(ret.mapper, ret.input)
        generated == GeneratedCodeDiagnostics(ret.mapper, ret.input)
    IN  SubSeq(ret.diags, Len(mapped) + 1, Len(ret.diags) - Len(generated))

\* the result is the mapped host diagnostics, then diagnostics built from
\* what the Expander reported, then the relocated diagnostics
PlacedBetween(reported) ==
    LET mapped == MappedDiagnostics(ret.mapper, ret.input)
        generated == GeneratedCodeDiagnostics(ret.mapper, ret.input)
    IN  /\ Len(ret.diags) = Len(mapped) + Len(reported) + Len(generated)
        /\ SubSeq(ret.diags, 1, Len(mapped)) = mapped
        /\ \A i \in 1..Len(generated) :
              ret.diags[Len(mapped) + Len(reported) + i].source = "macroforge-generated"

\* code, source, category and message of the diagnostics built from reported
TaggedAsMacro(reported) ==
    \A i \in 1..Len(reported) :
        LET d == BuiltFromExpander[i] IN
        /\ d.code = 9999
        /\ d.source = "macroforge"
        /\ d.messageText = reported[i].message
        /\ d.category = (CASE reported[i].level = "error" -> "error"
                           [] reported[i].level = "warning" -> "warning"
                           [] OTHER -> "message")

\* C30: every diagnostic that getSemanticDiagnostics builds from a diagnostic
\* of the Expander has code 9999, source "macroforge", the category of its
\* level, a start >= 0 and a length >= 0, and stands after the mapped host
\* diagnostics and before the relocated generated-code diagnostics.
C30_MacroDiagnosticsWellFormed ==
    GsdProcessed =>
        /\ \E reported \in ExpanderDiagnostics :
              PlacedBetween(reported) /\ TaggedAsMacro(reported)
        /\ \A i \in 1..Len(BuiltFromExpander) :
              BuiltFromExpander[i].start >= 0 /\ BuiltFromExpander[i].length >= 0

====
